---- MODULE Spec2Model ----
(***************************************************************************)
(* Model of the capture-and-storage pipeline of timeleapcam:               *)
(*   - the container format engine   (imagefiles.rs, ImageFiles)           *)
(*   - the write-behind queue        (imagefiles.rs, WriteThread)          *)
(*   - the capture state machine     (capture.rs, Capture::start)          *)
(*   - the wake-time scheduler       (main.rs, get_next_wake_time)         *)
(*                                                                         *)
(* Three families of behaviours share the variables below:                 *)
(*   Spec         the container API called from one thread                 *)
(*   SpecCapture  control thread + capture thread + writer thread          *)
(*   SpecSched    the scheduler applied to bounded inputs                  *)
(***************************************************************************)
EXTENDS Integers, Sequences, FiniteSets, TLC

VARIABLES
    \* ---- storage -------------------------------------------------------
    disk,          \* bytes of capture.dat (a sequence of 0..255)
    \* ---- container API used from one thread (Spec) ---------------------
    image_file,    \* Option<ImageFiles>: <<>> or <<handle>>
    open_mode,     \* mode the handle was opened with
    result,        \* what the last API call returned
    sess,          \* history: the calls made through the handle
    twin,          \* the same calls made on a freshly created container (Option)
    opens,         \* history: number of open calls so far
    \* ---- write-behind queue and capture session (SpecCapture) ----------
    wiq,           \* WriteImageQueue, the state behind the queue mutex
    wt,            \* WriteThread fields owned by the capture thread
    wimg,          \* the writer thread's local ImageFiles (Option)
    wdata,         \* the buffer the writer has popped and not yet written
    wrPc,          \* position of the writer thread
    info,          \* CaptureInfo, the state behind the session-info mutex
    capPc,         \* position of the capture thread
    cap,           \* locals of the capture thread
    frame,         \* the frame buffer the capture thread holds (Option)
    ctlPc,         \* position of the control loop
    hist,          \* history of the running session
    \* ---- scheduler (SpecSched) -----------------------------------------
    sched          \* inputs and result of get_next_wake_time

vars == <<disk, image_file, open_mode, result, sess, twin, opens,
          wiq, wt, wimg, wdata, wrPc, info, capPc, cap, frame, ctlPc, hist,
          sched>>

fileVars  == <<image_file, open_mode, result, sess, twin, opens>>
queueVars == <<wiq, wt, wimg, wdata, wrPc, info, capPc, cap, frame, ctlPc, hist>>

----------------------------------------------------------------------------
(* Bounds of the model.                                                    *)

\* calls made through one handle of the container
MaxOps == 4
\* handles opened one after the other on the same file
MaxOpens == 2

\* The source copies the payload through a temporary buffer of 8 KiB
\* (imagefiles.rs:12) and bounds the queue at 4 MiB (imagefiles.rs:11).
\* Payloads of the model are a few bytes long, so both sizes are scaled
\* down to a few bytes: the chunk loop and the full queue are then reached.
MAX_TEMP_BUF_SIZE == 2
MAX_QUEUE_SIZE == 3

----------------------------------------------------------------------------
(* Bytes and files.                                                        *)

Min(a, b) == IF a < b THEN a ELSE b

Zeros(n) == [i \in 1..n |-> 0]

\* the array a read fills: what was read, the rest stays 0
Pad(s, n) == s \o Zeros(n - Len(s))

\* little-endian bytes of n, k of them: (n & 0xFF), ((n >> 8) & 0xFF), ...
RECURSIVE LE(_, _)
LE(n, k) == IF k = 0 THEN <<>> ELSE <<n % 256>> \o LE(n \div 256, k - 1)

\* header[0] + (header[1] << 8) + ...
RECURSIVE FromLE(_)
FromLE(s) == IF s = <<>> THEN 0 ELSE s[1] + 256 * FromLE(Tail(s))

\* seek(Start(pos)) then read(buf) with buf.len() = n: the bytes returned
\* (fewer than n at the end of the file, none past it)
FileRead(d, pos, n) ==
    IF pos >= Len(d) THEN <<>> ELSE SubSeq(d, pos + 1, Min(pos + n, Len(d)))

\* seek(Start(pos)) then write(bytes): overwrites in place, extends the file,
\* and fills a gap before pos with zeros
FileWrite(d, pos, bytes) ==
    IF bytes = <<>> THEN d
    ELSE LET p == IF Len(d) < pos THEN d \o Zeros(pos - Len(d)) ELSE d
         IN  SubSeq(p, 1, pos) \o bytes \o SubSeq(p, pos + Len(bytes) + 1, Len(p))

IMAGE_HEADER_SIZE == 8

\* 'T' 'C' 'A' 'M', number of images (4 bytes), total size (8 bytes)
FILE_HEADER == <<84, 67, 65, 77, 0, 0, 0, 0, 0, 0, 0, 0, 0, 0, 0, 0>>

\* 'D' 'A' 'T' 'A'
DATA_TAG == <<68, 65, 84, 65>>

\* 'E' 'N' 'D' 0
END_TAG == <<69, 78, 68, 0>>

----------------------------------------------------------------------------
(* Container format engine: ImageFiles.                                    *)

\* the three open modes (enum OpenMode)
OpenMode == {"Read", "Write", "Append"}

\* the fields of ImageFiles that carry state (the timing counters only feed
\* log lines)
ImageFilesOf(n, rp, wp, ts) ==
    [nimages |-> n, read_pos |-> rp, write_pos |-> wp, total_size |-> ts]

\* the first four bytes read differ from 'T' 'C' 'A' 'M'
HeaderMismatch(header) == \E i \in 1..4 : header[i] # FILE_HEADER[i]

\* a mismatch is an error in Read mode only
RejectHeader_never(header, mode) == FALSE

RejectHeader(header, mode) == HeaderMismatch(header) /\ mode = "Read"

\* total size a handle starts with: 0 after a renewed header, else bytes 8..15
StartSize_stored(header, renew_header) == FromLE(SubSeq(header, 9, 16))

StartSize(header, renew_header) ==
    IF renew_header THEN 0 ELSE FromLE(SubSeq(header, 9, 16))

\* ImageFiles::new. os_ok: whether OpenOptions::open succeeds.
\* Returns res ("Ok", "InvalidHeader", "OpenFailed"), the handle as an Option
\* and the file afterwards.
ImageFiles_new(d, mode, os_ok) ==
    IF ~os_ok
    THEN [res |-> "OpenFailed", img |-> <<>>, disk |-> d]
    ELSE
    LET header == Pad(FileRead(d, 0, 16), 16)
        read_pos == Len(FILE_HEADER)
    IN  IF mode = "Write"
        THEN [res  |-> "Ok",
              img  |-> <<ImageFilesOf(0, read_pos, read_pos, 0)>>,
              disk |-> FileWrite(d, 0, FILE_HEADER)]
        ELSE IF RejectHeader(header, mode)
        THEN [res |-> "InvalidHeader", img |-> <<>>, disk |-> d]
        ELSE
        LET renew_header == HeaderMismatch(header)
            total_size == StartSize(header, renew_header)
            nimages == IF renew_header THEN 0
                       ELSE FromLE(SubSeq(header, 5, 8))
            write_pos == IF mode = "Append" THEN total_size + read_pos
                         ELSE read_pos
        IN  [res  |-> "Ok",
             img  |-> <<ImageFilesOf(nimages, read_pos, write_pos, total_size)>>,
             disk |-> IF renew_header THEN FileWrite(d, 0, FILE_HEADER) ELSE d]

\* the copy loop of write_image: the payload goes out in pieces of at most
\* MAX_TEMP_BUF_SIZE bytes, one write_all per piece, at least one piece
RECURSIVE WriteChunks(_, _, _)
WriteChunks(d, pos, data) ==
    IF Len(data) > MAX_TEMP_BUF_SIZE
    THEN WriteChunks(FileWrite(d, pos, SubSeq(data, 1, MAX_TEMP_BUF_SIZE)),
                     pos + MAX_TEMP_BUF_SIZE,
                     SubSeq(data, MAX_TEMP_BUF_SIZE + 1, Len(data)))
    ELSE FileWrite(d, pos, data)

\* write_image with the payload alone counted in the total size
write_image_payload(img, d, buffer) ==
    LET size == Len(buffer)
        header == DATA_TAG \o LE(size, 4)
        d1 == FileWrite(d, img.write_pos, header)
        d2 == WriteChunks(d1, img.write_pos + IMAGE_HEADER_SIZE, buffer)
    IN  [img  |-> [img EXCEPT !.write_pos = @ + size + IMAGE_HEADER_SIZE,
                              !.total_size = @ + size,
                              !.nimages = @ + 1],
         disk |-> d2]

\* ImageFiles::write_image (every file operation succeeding)
write_image(img, d, buffer) ==
    LET size == Len(buffer)
        header == DATA_TAG \o LE(size, 4)
        d1 == FileWrite(d, img.write_pos, header)
        d2 == WriteChunks(d1, img.write_pos + IMAGE_HEADER_SIZE, buffer)
    IN  [img  |-> [img EXCEPT !.write_pos = @ + size + IMAGE_HEADER_SIZE,
                              !.total_size = @ + size + IMAGE_HEADER_SIZE,
                              !.nimages = @ + 1],
         disk |-> d2]

\* a failed write_image that has moved the cursor and counted the record
write_image_err_counted(img, d, buffer, stage, done) ==
    LET size == Len(buffer)
        header == DATA_TAG \o LE(size, 4)
        d1 == FileWrite(d, img.write_pos, header)
    IN  [res  |-> "Err",
         img  |-> [img EXCEPT !.write_pos = @ + size + IMAGE_HEADER_SIZE,
                              !.total_size = @ + size + IMAGE_HEADER_SIZE,
                              !.nimages = @ + 1],
         disk |-> IF stage = "data"
                  THEN WriteChunks(d1, img.write_pos + IMAGE_HEADER_SIZE,
                                   SubSeq(buffer, 1, done))
                  ELSE d]

\* ImageFiles::write_image returning Err: the ? after the seek, after the
\* write of the record header or after a write_all of the copy loop leaves
\* the function before the cursors and the count are touched. stage: the file
\* operation that failed; done: the bytes of the payload that had reached the
\* file by then.
write_image_err(img, d, buffer, stage, done) ==
    LET size == Len(buffer)
        header == DATA_TAG \o LE(size, 4)
        d1 == FileWrite(d, img.write_pos, header)
    IN  [res  |-> "Err",
         img  |-> img,
         disk |-> IF stage = "data"
                  THEN WriteChunks(d1, img.write_pos + IMAGE_HEADER_SIZE,
                                   SubSeq(buffer, 1, done))
                  ELSE d]

\* write_image_end with the end-marker counted in the total size
write_image_end_counted(img, d) ==
    LET header == END_TAG \o <<0, 0, 0, 0>>
        d1 == FileWrite(d, img.write_pos, header)
        d2 == FileWrite(d1, 4, LE(img.nimages, 4))
        d3 == FileWrite(d2, 8, LE(img.total_size + IMAGE_HEADER_SIZE, 8))
    IN  [img  |-> [img EXCEPT !.write_pos = @ + IMAGE_HEADER_SIZE,
                              !.total_size = @ + IMAGE_HEADER_SIZE],
         disk |-> d3]

\* ImageFiles::write_image_end (every file operation succeeding)
write_image_end(img, d) ==
    LET header == END_TAG \o <<0, 0, 0, 0>>
        d1 == FileWrite(d, img.write_pos, header)
        d2 == FileWrite(d1, 4, LE(img.nimages, 4))
        d3 == FileWrite(d2, 8, LE(img.total_size, 8))
    IN  [img  |-> [img EXCEPT !.write_pos = @ + IMAGE_HEADER_SIZE],
         disk |-> d3]

\* ImageFiles::get_image_size
get_image_size(img, d) ==
    IF img.read_pos >= img.total_size + Len(FILE_HEADER) THEN 0
    ELSE LET got == FileRead(d, img.read_pos, IMAGE_HEADER_SIZE)
             header == Pad(got, IMAGE_HEADER_SIZE)
         IN  IF Len(got) # IMAGE_HEADER_SIZE THEN 0
             ELSE IF SubSeq(header, 1, 4) # DATA_TAG THEN 0
             ELSE FromLE(SubSeq(header, 5, 8))

\* ImageFiles::read_image: Err, or Ok(buffer) with the read cursor advanced by
\* the bytes actually read and the record header
read_image(img, d) ==
    LET size == get_image_size(img, d)
    IN  IF size = 0
        THEN [res |-> "Err", data |-> <<>>, img |-> img]
        ELSE LET got == FileRead(d, img.read_pos + IMAGE_HEADER_SIZE, size)
             IN  [res  |-> "Ok",
                  data |-> Pad(got, size),
                  img  |-> [img EXCEPT !.read_pos = @ + Len(got) + IMAGE_HEADER_SIZE]]

\* ImageFiles::seek_image: Ok(()) with the read cursor past from_frame
\* records, or Err with the cursor where the walk ended
RECURSIVE seek_image(_, _, _)
seek_image(img, d, from_frame) ==
    LET size == get_image_size(img, d)
    IN  IF from_frame = 0 THEN [res |-> "Ok", img |-> img]
        ELSE IF size = 0 THEN [res |-> "Err", img |-> img]
        ELSE seek_image([img EXCEPT !.read_pos = @ + size + IMAGE_HEADER_SIZE],
                        d, from_frame - 1)

\* ImageFiles::get_nof_images
get_nof_images(img) == img.nimages

\* what a reader gets from a file: open in Read mode, then read_image until
\* it returns Err
RECURSIVE ReadLoop(_, _, _)
ReadLoop(img, d, acc) ==
    LET r == read_image(img, d)
    IN  IF r.res = "Err" THEN acc ELSE ReadLoop(r.img, d, Append(acc, r.data))

ReadBack(d) ==
    LET o == ImageFiles_new(d, "Read", TRUE)
    IN  IF o.res # "Ok"
        THEN [res |-> o.res, nof |-> 0, images |-> <<>>]
        ELSE [res |-> "Ok", nof |-> get_nof_images(o.img[1]),
              images |-> ReadLoop(o.img[1], d, <<>>)]

----------------------------------------------------------------------------
(* The container API called from one thread.                               *)

\* payloads handed to write_image: empty, one byte, and one longer than the
\* temporary buffer
Buffers == {<<>>, <<1>>, <<2, 1, 2>>}

\* the file before the first open: absent or empty, a few bytes of something
\* else, and a longer file that does not start with the magic tag
InitDisks == {<<>>,
              <<84, 67, 65>>,
              <<84, 67, 65, 78, 1, 0, 0, 0, 3, 0, 0, 0, 0, 0, 0, 0, 7, 7, 7>>}

NoResult == [op |-> "none", res |-> "none", data |-> <<>>]
NoSess == [written |-> <<>>, finalized |-> 0, dirty |-> FALSE, ops |-> 0,
           renewed |-> FALSE, base |-> <<>>, asked |-> <<>>,
           failedAt |-> <<>>]

\* the from_frame arguments of seek_image
MaxSeek == 4

\* the images a finalized container holds when it is opened, as an Option:
\* those of the session before, when that session began at count 0 or on a
\* known content and ended with finalize and nothing after it
StoredAtOpen(mode, s) ==
    IF mode = "Read" THEN s.base
    ELSE IF s.finalized = 0 \/ s.dirty THEN <<>>
    ELSE IF mode = "Write" \/ s.renewed THEN <<s.written>>
    ELSE IF s.base # <<>> THEN <<s.base[1] \o s.written>>
    ELSE <<>>

InitQueueIdle ==
    /\ wiq = <<>> /\ wt = <<>> /\ wimg = <<>> /\ wdata = <<>> /\ wrPc = "none"
    /\ info = <<>> /\ capPc = "none" /\ cap = <<>> /\ frame = <<>>
    /\ ctlPc = "none" /\ hist = <<>>

InitSchedIdle == sched = <<>>

Init ==
    /\ disk \in InitDisks
    /\ image_file = <<>>
    /\ open_mode = "Read"
    /\ result = NoResult
    /\ sess = NoSess
    /\ twin = <<>>
    /\ opens = 0
    /\ InitQueueIdle
    /\ InitSchedIdle

\* a container created from nothing, to compare with
FreshContainer ==
    LET o == ImageFiles_new(<<>>, "Write", TRUE)
    IN  [img |-> o.img[1], disk |-> o.disk,
         result |-> [op |-> "new", res |-> o.res, data |-> <<>>]]

\* let file = ImageFiles::new(path, mode)
Open(mode, os_ok) ==
    /\ image_file = <<>>
    /\ opens < MaxOpens
    /\ LET o == ImageFiles_new(disk, mode, os_ok)
           bad == HeaderMismatch(Pad(FileRead(disk, 0, 16), 16))
       IN  /\ image_file' = o.img
           /\ disk' = o.disk
           /\ result' = [op |-> "new", res |-> o.res, data |-> <<>>]
           /\ twin' = IF o.res = "Ok" /\ mode = "Append" /\ bad
                      THEN <<FreshContainer>> ELSE <<>>
           /\ sess' = [NoSess EXCEPT
                         !.renewed = o.res = "Ok" /\ mode = "Append" /\ bad,
                         !.base = IF o.res = "InvalidHeader" THEN <<>>
                                  ELSE StoredAtOpen(open_mode, sess)]
    /\ open_mode' = mode
    /\ opens' = opens + 1
    /\ UNCHANGED <<queueVars, sched>>

\* file.write_image(&buffer), on a handle opened for writing
WriteImage(buffer) ==
    /\ image_file # <<>>
    /\ open_mode # "Read"
    /\ sess.ops < MaxOps
    /\ LET w == write_image(image_file[1], disk, buffer)
       IN  /\ image_file' = <<w.img>>
           /\ disk' = w.disk
    /\ result' = [op |-> "write_image", res |-> "Ok", data |-> <<>>]
    /\ twin' = IF twin = <<>> THEN <<>>
               ELSE LET w == write_image(twin[1].img, twin[1].disk, buffer)
                    IN  <<[img |-> w.img, disk |-> w.disk, result |-> result']>>
    /\ sess' = [sess EXCEPT !.written = Append(@, buffer),
                            !.dirty = @ \/ sess.finalized > 0,
                            !.ops = @ + 1]
    /\ UNCHANGED <<open_mode, opens, queueVars, sched>>

\* the file operations of write_image that can return Err
FailStages == {"seek", "header", "data"}

\* file.write_image(&buffer) returning Err
WriteImageFails(buffer, stage, done) ==
    /\ image_file # <<>>
    /\ open_mode # "Read"
    /\ sess.ops < MaxOps
    /\ stage = "data" => done < Len(buffer)
    /\ stage # "data" => done = 0
    /\ LET w == write_image_err(image_file[1], disk, buffer, stage, done)
       IN  /\ image_file' = <<w.img>>
           /\ disk' = w.disk
           /\ result' = [op |-> "write_image", res |-> w.res, data |-> <<>>]
    /\ twin' = IF twin = <<>> THEN <<>>
               ELSE LET w == write_image_err(twin[1].img, twin[1].disk,
                                             buffer, stage, done)
                    IN  <<[img |-> w.img, disk |-> w.disk, result |-> result']>>
    /\ sess' = [sess EXCEPT !.failedAt = Append(@, Len(sess.written)),
                            !.dirty = @ \/ (sess.finalized > 0
                                              /\ disk' # disk),
                            !.ops = @ + 1]
    /\ UNCHANGED <<open_mode, opens, queueVars, sched>>

\* file.write_image_end(), on a handle opened for writing
WriteImageEnd ==
    /\ image_file # <<>>
    /\ open_mode # "Read"
    /\ sess.ops < MaxOps
    /\ LET w == write_image_end(image_file[1], disk)
       IN  /\ image_file' = <<w.img>>
           /\ disk' = w.disk
    /\ result' = [op |-> "write_image_end", res |-> "Ok", data |-> <<>>]
    /\ twin' = IF twin = <<>> THEN <<>>
               ELSE LET w == write_image_end(twin[1].img, twin[1].disk)
                    IN  <<[img |-> w.img, disk |-> w.disk, result |-> result']>>
    /\ sess' = [sess EXCEPT !.finalized = @ + 1, !.ops = @ + 1]
    /\ UNCHANGED <<open_mode, opens, queueVars, sched>>

\* file.read_image()
ReadImage ==
    /\ image_file # <<>>
    /\ sess.ops < MaxOps
    /\ LET r == read_image(image_file[1], disk)
       IN  /\ image_file' = <<r.img>>
           /\ result' = [op |-> "read_image", res |-> r.res, data |-> r.data]
    /\ twin' = IF twin = <<>> THEN <<>>
               ELSE LET r == read_image(twin[1].img, twin[1].disk)
                    IN  <<[img |-> r.img, disk |-> twin[1].disk,
                           result |-> [op |-> "read_image", res |-> r.res,
                                       data |-> r.data]]>>
    /\ sess' = [sess EXCEPT !.ops = @ + 1]
    /\ UNCHANGED <<disk, open_mode, opens, queueVars, sched>>

\* file.seek_image(from_frame)
SeekImage(from_frame) ==
    /\ image_file # <<>>
    /\ sess.ops < MaxOps
    /\ LET r == seek_image(image_file[1], disk, from_frame)
       IN  /\ image_file' = <<r.img>>
           /\ result' = [op |-> "seek_image", res |-> r.res, data |-> <<>>]
    /\ twin' = IF twin = <<>> THEN <<>>
               ELSE LET r == seek_image(twin[1].img, twin[1].disk, from_frame)
                    IN  <<[img |-> r.img, disk |-> twin[1].disk,
                           result |-> [op |-> "seek_image", res |-> r.res,
                                       data |-> <<>>]]>>
    /\ sess' = [sess EXCEPT !.ops = @ + 1, !.asked = <<from_frame>>]
    /\ UNCHANGED <<disk, open_mode, opens, queueVars, sched>>

\* the handle goes out of scope (or the process is killed)
Close ==
    /\ image_file # <<>>
    /\ image_file' = <<>>
    /\ twin' = <<>>
    /\ result' = NoResult
    /\ UNCHANGED <<disk, open_mode, sess, opens, queueVars, sched>>

Next ==
    \/ \E mode \in OpenMode, os_ok \in BOOLEAN : Open(mode, os_ok)
    \/ \E buffer \in Buffers : WriteImage(buffer)
    \/ WriteImageEnd
    \/ ReadImage
    \/ \E from_frame \in 0..MaxSeek : SeekImage(from_frame)
    \/ Close

Spec == Init /\ [][Next]_vars

\* the write side of the container with file operations that may fail
NextFail ==
    \/ \E mode \in {"Write", "Append"}, os_ok \in BOOLEAN : Open(mode, os_ok)
    \/ \E buffer \in Buffers : WriteImage(buffer)
    \/ \E buffer \in Buffers, stage \in FailStages :
          \E done \in 0..Len(buffer) : WriteImageFails(buffer, stage, done)
    \/ WriteImageEnd
    \/ Close

SpecFail == Init /\ [][NextFail]_vars

----------------------------------------------------------------------------
(* Write-behind queue: WriteThread and WriteImageQueue.                    *)

\* frames a session may acquire from the sensor
MaxFrames == 3
\* capture requests the control loop issues
MaxRequests == 1

\* WriteThread::new: the queue state behind the mutex; guard is the thread
\* that holds the mutex (an Option; "poisoned" after its holder panicked)
NewQueue ==
    [buffer |-> <<>>, data_size |-> 0, thread_status |-> "NotStarted",
     write_done |-> FALSE, images |-> 0, queue_len |-> 0, guard |-> <<>>]

\* WriteThread::new: the fields the owner of the WriteThread holds
NewWriteThread(mode, direct) ==
    [open_mode |-> mode, direct_write_mode |-> direct, image_file |-> <<>>,
     buffer_is_full |-> FALSE, drop_frames |-> 0]

\* the test of push_data that rejects a buffer
QueueIsFull_ge(queue_len, size) == queue_len + size >= MAX_QUEUE_SIZE

QueueIsFull(queue_len, size) == queue_len + size > MAX_QUEUE_SIZE

\* push_data making room for a buffer that does not fit: the oldest queued
\* buffer goes
push_data_evict(t, q, d, data) ==
    IF t.direct_write_mode
    THEN IF t.image_file = <<>>
         THEN [panic |-> TRUE, wt |-> t, wiq |-> q, disk |-> d]
         ELSE LET w == write_image(t.image_file[1], d, data)
              IN  [panic |-> FALSE, wt |-> [t EXCEPT !.image_file = <<w.img>>],
                   wiq |-> q, disk |-> w.disk]
    ELSE IF QueueIsFull(q.queue_len, Len(data))
    THEN [panic |-> FALSE,
          wt |-> [t EXCEPT !.drop_frames = @ + 1, !.buffer_is_full = TRUE],
          wiq |-> IF q.buffer = <<>> THEN q
                  ELSE [q EXCEPT !.queue_len = @ - Len(q.buffer[1]),
                                 !.buffer = Tail(@)],
          disk |-> d]
    ELSE [panic |-> FALSE,
          wt |-> [t EXCEPT !.buffer_is_full =
                               IF @ /\ Len(data) = 0 THEN FALSE ELSE @],
          wiq |-> [q EXCEPT !.queue_len = @ + Len(data),
                            !.buffer = Append(@, data)],
          disk |-> d]

\* WriteThread::push_data. In direct mode the image file is unwrapped: with
\* no file (the open failed) the calling thread panics.
push_data(t, q, d, data) ==
    IF t.direct_write_mode
    THEN IF t.image_file = <<>>
         THEN [panic |-> TRUE, wt |-> t, wiq |-> q, disk |-> d]
         ELSE LET w == write_image(t.image_file[1], d, data)
              IN  [panic |-> FALSE, wt |-> [t EXCEPT !.image_file = <<w.img>>],
                   wiq |-> q, disk |-> w.disk]
    ELSE IF QueueIsFull(q.queue_len, Len(data))
    THEN [panic |-> FALSE,
          wt |-> [t EXCEPT !.drop_frames = @ + 1, !.buffer_is_full = TRUE],
          wiq |-> q, disk |-> d]
    ELSE [panic |-> FALSE,
          wt |-> [t EXCEPT !.buffer_is_full =
                               IF @ /\ Len(data) = 0 THEN FALSE ELSE @],
          wiq |-> [q EXCEPT !.queue_len = @ + Len(data),
                            !.buffer = Append(@, data)],
          disk |-> d]

\* the direct stop() leaving the file without its end record and count
stop_unfinalized(t, q, d) ==
    [panic |-> t.direct_write_mode /\ t.image_file = <<>>, wt |-> t,
     wiq |-> [q EXCEPT !.write_done = TRUE], disk |-> d]

\* WriteThread::stop
stop(t, q, d) ==
    IF t.direct_write_mode
    THEN IF t.image_file = <<>>
         THEN [panic |-> TRUE, wt |-> t, wiq |-> q, disk |-> d]
         ELSE LET w == write_image_end(t.image_file[1], d)
              IN  [panic |-> FALSE, wt |-> [t EXCEPT !.image_file = <<w.img>>],
                   wiq |-> [q EXCEPT !.images = get_nof_images(w.img),
                                     !.write_done = TRUE],
                   disk |-> w.disk]
    ELSE [panic |-> FALSE, wt |-> t, wiq |-> [q EXCEPT !.write_done = TRUE],
          disk |-> d]

\* WriteThread::wait_thread: the condition that ends its polling loop
wait_thread_done(t, q) ==
    t.direct_write_mode \/ q.thread_status = "Stopped"

\* WriteThread::get_nof_images
WriteThread_get_nof_images(q) == q.images

\* the writer takes the newest buffer instead of the oldest
PopIndex_last(buffer) == Len(buffer)

\* the writer loop removes the buffer at index 0 (1 in a TLA+ sequence)
PopIndex(buffer) == 1

RemoveAt(seq, i) == SubSeq(seq, 1, i - 1) \o SubSeq(seq, i + 1, Len(seq))

----------------------------------------------------------------------------
(* Capture state machine and the three threads (SpecCapture).              *)

\* frames the sensor delivers
Frames == {<<1>>, <<2, 1>>}

\* capturing_duration: movie, single shot, burst of one second
Durations == {-1, 0, 1}

\* the session clock counts seconds up to the longest duration: the stop
\* condition cannot tell later instants apart
ClockTop == CHOOSE d \in Durations : \A e \in Durations : e <= d

\* history of a session: the buffers push_data queued and the buffers the
\* writer handed to write_image, the calls of push_data, whether the sensor
\* returned no frame, whether the open failed, whether stop() was called,
\* the calls of write_image_end, the file when the session began, the
\* durations the per-frame checks read, the frames acquired when the control
\* loop ended movie mode (as an Option, emptied by the request that sets the
\* duration anew); and the capture requests issued so
\* far and how many of them were issued when the session began; the frame
\* size change_resolution was last called with, and the one it had been last
\* called with when the capture thread saw the session's request (Options)
NoHist ==
    [accepted |-> <<>>, handed |-> <<>>, pushes |-> 0,
     noFrame |-> FALSE, openFailed |-> FALSE, stopCalled |-> FALSE,
     ends |-> 0, disk0 |-> <<>>, checked |-> <<>>, cancelled |-> <<>>,
     requests |-> 0, session |-> 0, resolution |-> <<>>, atPoll |-> <<>>]

\* frame sizes of the sensor (camera::framesize_t)
Resolutions == {"VGA", "QSXGA"}

\* Capture::new; guard is the thread that holds the mutex of the CaptureInfo
NewCaptureInfo ==
    [request |-> FALSE, status |-> FALSE, capture_id |-> 0, size |-> 0,
     capturing_duration |-> 0, open_mode |-> "Append",
     direct_write_mode |-> FALSE, autofocus_request |-> FALSE,
     change_resolution |-> FALSE, resolution |-> "VGA", jpeg_quality |-> 12,
     guard |-> <<>>]

\* the locals of the capture thread, and the sensor it holds: Camera::new
\* sets frame size QSXGA and JPEG quality 10; passes are the autofocus
\* passes of the last turn of the thread's loop
NewCaptureLocals ==
    [current_status |-> FALSE, loop_count |-> 0, size |-> 0, elapsed |-> 0,
     framesize |-> "QSXGA", quality |-> 10, passes |-> <<>>]

InitFileIdle ==
    /\ image_file = <<>> /\ open_mode = "Read" /\ result = NoResult
    /\ sess = NoSess /\ twin = <<>> /\ opens = 0

InitCapture ==
    /\ disk = <<>>
    /\ InitFileIdle
    /\ wiq = NewQueue
    /\ wt = NewWriteThread("Append", FALSE)
    /\ wimg = <<>>
    /\ wdata = <<>>
    /\ wrPc = "none"
    /\ info = NewCaptureInfo
    /\ capPc = "poll"
    /\ cap = NewCaptureLocals
    /\ frame = <<>>
    /\ ctlPc = "idle"
    /\ hist = NoHist
    /\ InitSchedIdle

\* frames the session has got from the sensor: those released and the one
\* the capture thread holds
Acquired == cap.loop_count + IF capPc \in {"push", "release"} THEN 1 ELSE 0

\* ---- control loop (main.rs) ---------------------------------------------

\* set_capturing_duration, autofocus_request, set_overwrite_saved,
\* set_direct_write_mode, then capture_request; in movie mode the loop does not wait for the status.
\* most: the requests a run may issue.
ControlIssue(duration, mode, direct, most) ==
    /\ ctlPc = "idle"
    /\ hist.requests < most
    /\ info' = [info EXCEPT !.capturing_duration = duration,
                            !.open_mode = mode,
                            !.direct_write_mode = direct,
                            !.autofocus_request = TRUE,
                            !.request = TRUE,
                            !.status = FALSE,
                            !.capture_id = 0]
    /\ ctlPc' = IF duration < 0 THEN "movie" ELSE "waiting"
    /\ hist' = [hist EXCEPT !.requests = @ + 1, !.cancelled = <<>>]
    /\ UNCHANGED <<disk, fileVars, wiq, wt, wimg, wdata, wrPc, capPc, cap,
                   frame, sched>>

ControlRequest(duration, mode, direct) ==
    ControlIssue(duration, mode, direct, MaxRequests)

\* loop { if capture.get_capture_status() { break; } sleep }
ControlWaitStatus ==
    /\ ctlPc = "waiting"
    /\ info.status
    /\ ctlPc' = "idle"
    /\ UNCHANGED <<disk, fileVars, wiq, wt, wimg, wdata, wrPc, info, capPc,
                   cap, frame, hist, sched>>

\* the key that ends movie mode: capture_started = false and
\* capture_frames_at_once = 0, passed on by set_capturing_duration; the loop
\* does not wait for the session and is free to issue the next request
ControlStopMovie ==
    /\ ctlPc = "movie"
    /\ info' = [info EXCEPT !.capturing_duration = 0]
    /\ ctlPc' = "idle"
    /\ hist' = [hist EXCEPT !.cancelled =
                   IF capPc \in {"acquire", "push", "release", "check"}
                   THEN <<Acquired>> ELSE @]
    /\ UNCHANGED <<disk, fileVars, wiq, wt, wimg, wdata, wrPc, capPc, cap,
                   frame, sched>>

\* the frame size main.rs compares the configured one with: the one it
\* created the camera with, then the one it last passed to change_resolution
current_resolution ==
    IF info.change_resolution \/ hist.resolution # <<>> THEN info.resolution
    ELSE cap.framesize

\* if server_info.resolution != current_resolution { change_resolution }
ChangeResolution(resolution) ==
    /\ ctlPc \in {"idle", "movie"}
    /\ resolution # current_resolution
    /\ info' = [info EXCEPT !.change_resolution = TRUE,
                            !.resolution = resolution]
    /\ hist' = [hist EXCEPT !.resolution = <<resolution>>]
    /\ UNCHANGED <<disk, fileVars, wiq, wt, wimg, wdata, wrPc, capPc, cap,
                   frame, ctlPc, sched>>

\* ---- capture thread (capture.rs) ----------------------------------------

\* the sensor after the thread has looked at change_resolution and at
\* autofocus_request: set_framesize and an autofocus pass, an autofocus pass
SensorAtLoopTop ==
    [cap EXCEPT
        !.framesize = IF info.change_resolution THEN info.resolution ELSE @,
        !.passes = (IF info.change_resolution THEN <<"resolution">> ELSE <<>>)
                   \o (IF info.autofocus_request THEN <<"request">> ELSE <<>>)]

\* top of the thread's loop: apply a resolution change, follow the request
\* flag, run a requested autofocus, sleep when idle
CapturePoll ==
    /\ capPc = "poll"
    /\ \/ /\ info.request
          /\ cap' = [SensorAtLoopTop EXCEPT !.current_status = TRUE]
          /\ capPc' = "setup"
          /\ hist' = [hist EXCEPT !.atPoll = hist.resolution]
       \/ /\ ~info.request
          /\ cap.current_status \/ info.change_resolution
                                \/ info.autofocus_request
          /\ cap' = [SensorAtLoopTop EXCEPT !.current_status = FALSE]
          /\ capPc' = "poll"
          /\ hist' = hist
    /\ info' = [info EXCEPT !.change_resolution = FALSE,
                            !.autofocus_request = FALSE]
    /\ UNCHANGED <<disk, fileVars, wiq, wt, wimg, wdata, wrPc, frame, ctlPc,
                   sched>>

\* "Capture Start...": set_quality, status = false (wait_focus is never
\* set), WriteThread::new and start(). In
\* direct mode start() opens the container here; in queued mode it spawns
\* the writer thread, which opens it.
CaptureSetup(os_ok) ==
    /\ capPc = "setup"
    /\ LET mode == IF info.open_mode = "Write" THEN "Write" ELSE "Append"
           direct == info.direct_write_mode
           t == NewWriteThread(mode, direct)
           o == ImageFiles_new(disk, mode, os_ok)
       IN  /\ info' = [info EXCEPT !.status = FALSE]
           /\ wiq' = NewQueue
           /\ IF direct
              THEN /\ wt' = [t EXCEPT !.image_file = o.img]
                   /\ disk' = o.disk
                   /\ wrPc' = "none"
                   /\ hist' = [NoHist EXCEPT !.disk0 = disk,
                                             !.openFailed = o.res # "Ok",
                                             !.requests = hist.requests,
                                             !.session = hist.requests,
                                             !.resolution = hist.resolution,
                                             !.atPoll = hist.atPoll]
              ELSE /\ os_ok
                   /\ wt' = t
                   /\ disk' = disk
                   /\ wrPc' = "open"
                   /\ hist' = [NoHist EXCEPT !.disk0 = disk,
                                             !.requests = hist.requests,
                                             !.session = hist.requests,
                                             !.resolution = hist.resolution,
                                             !.atPoll = hist.atPoll]
    /\ wimg' = <<>>
    /\ wdata' = <<>>
    /\ cap' = [cap EXCEPT !.loop_count = 0, !.size = 0, !.elapsed = 0,
                          !.quality = info.jpeg_quality]
    /\ capPc' = "acquire"
    /\ UNCHANGED <<fileVars, frame, ctlPc, sched>>

\* camera.get_framebuffer(): a frame, or None ("No frame": leave the loop)
CaptureAcquire ==
    /\ capPc = "acquire"
    /\ \/ /\ cap.loop_count < MaxFrames
          /\ \E f \in Frames : frame' = <<f>>
          /\ capPc' = "push"
          /\ hist' = hist
       \/ /\ frame' = <<>>
          /\ capPc' = "wait"
          /\ hist' = [hist EXCEPT !.noFrame = TRUE]
    /\ UNCHANGED <<disk, fileVars, wiq, wt, wimg, wdata, wrPc, info, cap,
                   ctlPc, sched>>

\* write_thread.push_data(&buffer)
CapturePush ==
    /\ capPc = "push"
    /\ LET r == push_data(wt, wiq, disk, frame[1])
       IN  /\ wt' = r.wt
           /\ wiq' = r.wiq
           /\ disk' = r.disk
           /\ capPc' = IF r.panic THEN "panicked" ELSE "release"
           /\ hist' = [hist EXCEPT
                 !.pushes = @ + 1,
                 !.accepted = IF r.wiq.buffer # wiq.buffer
                              THEN Append(@, frame[1]) ELSE @]
    /\ cap' = [cap EXCEPT !.size = Len(frame[1])]
    /\ UNCHANGED <<fileVars, wimg, wdata, wrPc, info, frame, ctlPc, sched>>

\* a thread that looks at change_resolution after every frame
CaptureRelease_resize ==
    /\ capPc = "release"
    /\ frame' = <<>>
    /\ cap' = [SensorAtLoopTop EXCEPT !.loop_count = @ + 1]
    /\ info' = [info EXCEPT !.change_resolution = FALSE,
                            !.autofocus_request = FALSE]
    /\ capPc' = "check"
    /\ UNCHANGED <<disk, fileVars, wiq, wt, wimg, wdata, wrPc, ctlPc, hist,
                   sched>>

\* loop_count += 1; camera.return_framebuffer(frame)
CaptureRelease ==
    /\ capPc = "release"
    /\ frame' = <<>>
    /\ cap' = [cap EXCEPT !.loop_count = @ + 1]
    /\ capPc' = "check"
    /\ UNCHANGED <<disk, fileVars, wiq, wt, wimg, wdata, wrPc, info, ctlPc,
                   hist, sched>>

\* the stop condition with movie mode ending like a single shot
SessionOver_movieEnds(duration, elapsed) ==
    IF duration > 0 THEN elapsed >= duration ELSE TRUE

\* the stop condition without its single-shot arm
SessionOver_timed(duration, elapsed) == duration > 0 /\ elapsed >= duration

\* the stop condition, looked at after each frame
SessionOver(duration, elapsed) ==
    IF duration > 0 THEN elapsed >= duration
    ELSE IF duration < 0 THEN FALSE
    ELSE TRUE

\* the per-frame check: write_thread.stop() and break, or go on
CaptureCheck ==
    /\ capPc = "check"
    /\ IF SessionOver(info.capturing_duration, cap.elapsed)
       THEN LET r == stop(wt, wiq, disk)
            IN  /\ wt' = r.wt
                /\ wiq' = r.wiq
                /\ disk' = r.disk
                /\ capPc' = IF r.panic THEN "panicked" ELSE "wait"
                /\ hist' = [hist EXCEPT !.stopCalled = TRUE,
                               !.checked = Append(@, info.capturing_duration),
                               !.ends = IF wt.direct_write_mode /\ ~r.panic
                                        THEN @ + 1 ELSE @]
       ELSE /\ capPc' = "acquire"
            /\ hist' = [hist EXCEPT
                          !.checked = Append(@, info.capturing_duration)]
            /\ UNCHANGED <<wt, wiq, disk>>
    /\ UNCHANGED <<fileVars, wimg, wdata, wrPc, info, cap, frame, ctlPc,
                   sched>>

\* write_thread.wait_thread() returns
CaptureWait ==
    /\ capPc = "wait"
    /\ wait_thread_done(wt, wiq)
    /\ capPc' = "finish"
    /\ UNCHANGED <<disk, fileVars, wiq, wt, wimg, wdata, wrPc, info, cap,
                   frame, ctlPc, hist, sched>>

\* the session is over: capture_id, size, status = true, request = false
CaptureFinish ==
    /\ capPc = "finish"
    /\ LET write_images == WriteThread_get_nof_images(wiq)
       IN  info' = [info EXCEPT
                       !.capture_id = IF write_images > 0
                                      THEN write_images - 1 ELSE 0,
                       !.size = cap.size,
                       !.status = TRUE,
                       !.request = FALSE]
    /\ capPc' = "poll"
    /\ UNCHANGED <<disk, fileVars, wiq, wt, wimg, wdata, wrPc, cap, frame,
                   ctlPc, hist, sched>>

\* a second passes while a session runs; the session reads its clock at the
\* per-frame check only
Tick ==
    /\ capPc = "check"
    /\ cap.elapsed < ClockTop
    /\ cap' = [cap EXCEPT !.elapsed = @ + 1]
    /\ UNCHANGED <<disk, fileVars, wiq, wt, wimg, wdata, wrPc, info, capPc,
                   frame, ctlPc, hist, sched>>

\* ---- writer thread (imagefiles.rs, WriteThread::start) -------------------

\* the spawned thread opens the container; on Err it logs and returns
WriterOpen(os_ok) ==
    /\ wrPc = "open"
    /\ LET o == ImageFiles_new(disk, wt.open_mode, os_ok)
       IN  /\ wimg' = o.img
           /\ disk' = o.disk
           /\ wrPc' = IF o.res = "Ok" THEN "loop" ELSE "failed"
           /\ hist' = [hist EXCEPT !.openFailed = o.res # "Ok"]
    /\ UNCHANGED <<fileVars, wiq, wt, wdata, info, capPc, cap, frame, ctlPc,
                   sched>>

\* the loop looking at write_done before it looks at the queue
WriterLoop_doneFirst ==
    /\ wrPc = "loop"
    /\ IF wiq.write_done
       THEN /\ wiq' = [wiq EXCEPT !.thread_status = "Running"]
            /\ wdata' = wdata
            /\ wrPc' = "end"
       ELSE IF Len(wiq.buffer) > 0
       THEN LET i == PopIndex(wiq.buffer)
                data == wiq.buffer[i]
            IN  /\ wiq' = [wiq EXCEPT !.thread_status = "Running",
                                      !.buffer = RemoveAt(@, i),
                                      !.data_size = @ + Len(data),
                                      !.queue_len = @ - Len(data)]
                /\ wdata' = <<data>>
                /\ wrPc' = "write"
       ELSE /\ wiq.thread_status # "Running"
            /\ wiq' = [wiq EXCEPT !.thread_status = "Running"]
            /\ wdata' = wdata
            /\ wrPc' = "loop"
    /\ UNCHANGED <<disk, fileVars, wt, wimg, info, capPc, cap, frame, ctlPc,
                   hist, sched>>

\* one turn of the loop under the mutex: pop the oldest buffer, or break
\* when the queue is empty and write_done is set, or sleep
WriterLoop ==
    /\ wrPc = "loop"
    /\ IF Len(wiq.buffer) > 0
       THEN LET i == PopIndex(wiq.buffer)
                data == wiq.buffer[i]
            IN  /\ wiq' = [wiq EXCEPT !.thread_status = "Running",
                                      !.buffer = RemoveAt(@, i),
                                      !.data_size = @ + Len(data),
                                      !.queue_len = @ - Len(data)]
                /\ wdata' = <<data>>
                /\ wrPc' = "write"
       ELSE IF wiq.write_done
       THEN /\ wiq' = [wiq EXCEPT !.thread_status = "Running"]
            /\ wdata' = wdata
            /\ wrPc' = "end"
       ELSE /\ wiq.thread_status # "Running"
            /\ wiq' = [wiq EXCEPT !.thread_status = "Running"]
            /\ wdata' = wdata
            /\ wrPc' = "loop"
    /\ UNCHANGED <<disk, fileVars, wt, wimg, info, capPc, cap, frame, ctlPc,
                   hist, sched>>

\* image_file.write_image(&data), outside the mutex
WriterWrite ==
    /\ wrPc = "write"
    /\ LET w == write_image(wimg[1], disk, wdata[1])
       IN  /\ wimg' = <<w.img>>
           /\ disk' = w.disk
    /\ hist' = [hist EXCEPT !.handed = Append(@, wdata[1])]
    /\ wdata' = <<>>
    /\ wrPc' = "loop"
    /\ UNCHANGED <<fileVars, wiq, wt, info, capPc, cap, frame, ctlPc, sched>>

\* image_file.write_image_end(), after the loop
WriterEnd ==
    /\ wrPc = "end"
    /\ LET w == write_image_end(wimg[1], disk)
       IN  /\ wimg' = <<w.img>>
           /\ disk' = w.disk
    /\ hist' = [hist EXCEPT !.ends = @ + 1]
    /\ wrPc' = "publish"
    /\ UNCHANGED <<fileVars, wiq, wt, wdata, info, capPc, cap, frame, ctlPc,
                   sched>>

\* qlk.images = get_nof_images(); qlk.thread_status = Stopped; thread ends
WriterPublish_running ==
    /\ wrPc = "publish"
    /\ wiq' = [wiq EXCEPT !.images = get_nof_images(wimg[1])]
    /\ wrPc' = "exited"
    /\ UNCHANGED <<disk, fileVars, wt, wimg, wdata, info, capPc, cap, frame,
                   ctlPc, hist, sched>>

WriterPublish ==
    /\ wrPc = "publish"
    /\ wiq' = [wiq EXCEPT !.images = get_nof_images(wimg[1]),
                          !.thread_status = "Stopped"]
    /\ wrPc' = "exited"
    /\ UNCHANGED <<disk, fileVars, wt, wimg, wdata, info, capPc, cap, frame,
                   ctlPc, hist, sched>>

ControlLoop ==
    \/ \E duration \in Durations, mode \in {"Write", "Append"},
          direct \in BOOLEAN : ControlRequest(duration, mode, direct)
    \/ ControlWaitStatus
    \/ ControlStopMovie

CaptureThread ==
    \/ CapturePoll
    \/ \E os_ok \in BOOLEAN : CaptureSetup(os_ok)
    \/ CaptureAcquire
    \/ CapturePush
    \/ CaptureRelease
    \/ CaptureCheck
    \/ CaptureWait
    \/ CaptureFinish

WriterThread ==
    \/ \E os_ok \in BOOLEAN : WriterOpen(os_ok)
    \/ WriterLoop
    \/ WriterWrite
    \/ WriterEnd
    \/ WriterPublish

NextCapture == ControlLoop \/ CaptureThread \/ WriterThread \/ Tick

SpecCapture == InitCapture /\ [][NextCapture]_vars

\* the operating system schedules every thread, and time passes
FairSpecCapture ==
    /\ SpecCapture
    /\ WF_vars(CaptureThread)
    /\ WF_vars(WriterThread)
    /\ WF_vars(Tick)

----------------------------------------------------------------------------
(* The control loop issuing request after request (SpecOverlap): the       *)
(* settings main.rs uses, queued writes appended to the container.         *)

\* capture requests of a run
MaxOverlap == 2

\* the next request of the control loop, whatever the capture thread is doing
ControlRequestNext(duration) ==
    ControlIssue(duration, "Append", FALSE, MaxOverlap)

ControlLoopOverlap ==
    \/ \E duration \in Durations : ControlRequestNext(duration)
    \/ ControlWaitStatus
    \/ ControlStopMovie

NextOverlap ==
    ControlLoopOverlap \/ CaptureThread \/ WriterThread \/ Tick

SpecOverlap == InitCapture /\ [][NextOverlap]_vars

\* the same control loop with the frame size changed from the web page
\* (SpecResolution)
ControlLoopResolution ==
    \/ ControlLoopOverlap
    \/ \E resolution \in Resolutions : ChangeResolution(resolution)

NextResolution ==
    ControlLoopResolution \/ CaptureThread \/ WriterThread \/ Tick

SpecResolution == InitCapture /\ [][NextResolution]_vars

----------------------------------------------------------------------------
(* The three threads with their mutexes (SpecMutex): every lock() is a     *)
(* step of its own, which waits while another thread holds the guard; the  *)
(* guard is dropped in the step that ends the critical section.            *)

\* ---- control loop ---------------------------------------------------------

\* info.lock() in a setter or in get_capture_status
ControlLock ==
    /\ \/ ctlPc = "idle" /\ hist.requests < MaxRequests
       \/ ctlPc \in {"waiting", "movie"}
    /\ info.guard = <<>>
    /\ info' = [info EXCEPT !.guard = <<"control">>]
    /\ UNCHANGED <<disk, fileVars, wiq, wt, wimg, wdata, wrPc, capPc, cap,
                   frame, ctlPc, hist, sched>>

\* the setters and capture_request, under the lock
ControlIssueLocked(duration, mode, direct) ==
    /\ ctlPc = "idle"
    /\ info.guard = <<"control">>
    /\ info' = [info EXCEPT !.capturing_duration = duration,
                            !.open_mode = mode,
                            !.direct_write_mode = direct,
                            !.autofocus_request = TRUE,
                            !.request = TRUE,
                            !.status = FALSE,
                            !.capture_id = 0,
                            !.guard = <<>>]
    /\ ctlPc' = IF duration < 0 THEN "movie" ELSE "waiting"
    /\ hist' = [hist EXCEPT !.requests = @ + 1, !.cancelled = <<>>]
    /\ UNCHANGED <<disk, fileVars, wiq, wt, wimg, wdata, wrPc, capPc, cap,
                   frame, sched>>

\* get_capture_status(): break when it is true, else sleep and ask again
ControlStatusLocked ==
    /\ ctlPc = "waiting"
    /\ info.guard = <<"control">>
    /\ info' = [info EXCEPT !.guard = <<>>]
    /\ ctlPc' = IF info.status THEN "idle" ELSE "waiting"
    /\ UNCHANGED <<disk, fileVars, wiq, wt, wimg, wdata, wrPc, capPc, cap,
                   frame, hist, sched>>

\* set_capturing_duration(0) after the key that ends movie mode
ControlStopMovieLocked ==
    /\ ctlPc = "movie"
    /\ info.guard = <<"control">>
    /\ info' = [info EXCEPT !.capturing_duration = 0, !.guard = <<>>]
    /\ ctlPc' = "idle"
    /\ hist' = [hist EXCEPT !.cancelled =
                   IF capPc \in {"acquire", "push", "release", "check"}
                   THEN <<Acquired>> ELSE @]
    /\ UNCHANGED <<disk, fileVars, wiq, wt, wimg, wdata, wrPc, capPc, cap,
                   frame, sched>>

\* ---- capture thread -------------------------------------------------------

\* info.lock(): at the loop top, at "Capture Start", at the per-frame check
\* and when the session publishes its status
CaptureLockInfo ==
    /\ capPc \in {"poll", "setup", "check", "status"}
    /\ info.guard = <<>>
    /\ info' = [info EXCEPT !.guard = <<"capture">>]
    /\ UNCHANGED <<disk, fileVars, wiq, wt, wimg, wdata, wrPc, capPc, cap,
                   frame, ctlPc, hist, sched>>

\* write_image_queue.lock() in push_data, in wait_thread, in get_nof_images,
\* and in stop, which the per-frame check calls with the info guard in hand
CaptureLockQueue ==
    /\ \/ capPc \in {"push", "wait", "finish"}
       \/ /\ capPc = "check"
          /\ info.guard = <<"capture">>
          /\ SessionOver(info.capturing_duration, cap.elapsed)
    /\ wiq.guard = <<>>
    /\ wiq' = [wiq EXCEPT !.guard = <<"capture">>]
    /\ UNCHANGED <<disk, fileVars, wt, wimg, wdata, wrPc, info, capPc, cap,
                   frame, ctlPc, hist, sched>>

\* the loop top under the lock, then drop(infolk)
CapturePollLocked ==
    /\ capPc = "poll"
    /\ info.guard = <<"capture">>
    /\ cap' = [SensorAtLoopTop EXCEPT !.current_status = info.request]
    /\ capPc' = IF info.request THEN "setup" ELSE "poll"
    /\ hist' = IF info.request THEN [hist EXCEPT !.atPoll = hist.resolution]
               ELSE hist
    /\ info' = [info EXCEPT !.change_resolution = FALSE,
                            !.autofocus_request = FALSE,
                            !.guard = <<>>]
    /\ UNCHANGED <<disk, fileVars, wiq, wt, wimg, wdata, wrPc, frame, ctlPc,
                   sched>>

\* "Capture Start..." under the lock, drop(infolk), WriteThread::new, start()
CaptureSetupLocked(os_ok) ==
    /\ capPc = "setup"
    /\ info.guard = <<"capture">>
    /\ LET mode == IF info.open_mode = "Write" THEN "Write" ELSE "Append"
           direct == info.direct_write_mode
           t == NewWriteThread(mode, direct)
           o == ImageFiles_new(disk, mode, os_ok)
           h == [NoHist EXCEPT !.disk0 = disk,
                               !.requests = hist.requests,
                               !.session = hist.requests,
                               !.resolution = hist.resolution,
                               !.atPoll = hist.atPoll]
       IN  /\ info' = [info EXCEPT !.status = FALSE, !.guard = <<>>]
           /\ wiq' = NewQueue
           /\ IF direct
              THEN /\ wt' = [t EXCEPT !.image_file = o.img]
                   /\ disk' = o.disk
                   /\ wrPc' = "none"
                   /\ hist' = [h EXCEPT !.openFailed = o.res # "Ok"]
              ELSE /\ os_ok
                   /\ wt' = t
                   /\ disk' = disk
                   /\ wrPc' = "open"
                   /\ hist' = h
    /\ wimg' = <<>>
    /\ wdata' = <<>>
    /\ cap' = [cap EXCEPT !.loop_count = 0, !.size = 0, !.elapsed = 0,
                          !.quality = info.jpeg_quality]
    /\ capPc' = "acquire"
    /\ UNCHANGED <<fileVars, frame, ctlPc, sched>>

\* push_data under the queue lock; a panic poisons the mutex
CapturePushLocked ==
    /\ capPc = "push"
    /\ wiq.guard = <<"capture">>
    /\ LET r == push_data(wt, wiq, disk, frame[1])
       IN  /\ wt' = r.wt
           /\ wiq' = [r.wiq EXCEPT !.guard = IF r.panic THEN <<"poisoned">>
                                             ELSE <<>>]
           /\ disk' = r.disk
           /\ capPc' = IF r.panic THEN "panicked" ELSE "release"
           /\ hist' = [hist EXCEPT
                 !.pushes = @ + 1,
                 !.accepted = IF r.wiq.buffer # wiq.buffer
                              THEN Append(@, frame[1]) ELSE @]
    /\ cap' = [cap EXCEPT !.size = Len(frame[1])]
    /\ UNCHANGED <<fileVars, wimg, wdata, wrPc, info, frame, ctlPc, sched>>

\* the per-frame check under the info lock: go on, or stop() under the queue
\* lock and break; both guards are dropped on the way out
CaptureCheckLocked ==
    /\ capPc = "check"
    /\ info.guard = <<"capture">>
    /\ IF SessionOver(info.capturing_duration, cap.elapsed)
       THEN /\ wiq.guard = <<"capture">>
            /\ LET r == stop(wt, wiq, disk)
               IN  /\ wt' = r.wt
                   /\ wiq' = [r.wiq EXCEPT !.guard =
                                 IF r.panic THEN <<"poisoned">> ELSE <<>>]
                   /\ info' = [info EXCEPT !.guard =
                                 IF r.panic THEN <<"poisoned">> ELSE <<>>]
                   /\ disk' = r.disk
                   /\ capPc' = IF r.panic THEN "panicked" ELSE "wait"
                   /\ hist' = [hist EXCEPT !.stopCalled = TRUE,
                               !.checked = Append(@, info.capturing_duration),
                               !.ends = IF wt.direct_write_mode /\ ~r.panic
                                        THEN @ + 1 ELSE @]
       ELSE /\ capPc' = "acquire"
            /\ info' = [info EXCEPT !.guard = <<>>]
            /\ hist' = [hist EXCEPT
                          !.checked = Append(@, info.capturing_duration)]
            /\ UNCHANGED <<wt, wiq, disk>>
    /\ UNCHANGED <<fileVars, wimg, wdata, wrPc, cap, frame, ctlPc, sched>>

\* one turn of wait_thread under the queue lock: break, or sleep
CaptureWaitLocked ==
    /\ capPc = "wait"
    /\ wiq.guard = <<"capture">>
    /\ wiq' = [wiq EXCEPT !.guard = <<>>]
    /\ capPc' = IF wait_thread_done(wt, wiq) THEN "finish" ELSE "wait"
    /\ UNCHANGED <<disk, fileVars, wt, wimg, wdata, wrPc, info, cap, frame,
                   ctlPc, hist, sched>>

\* write_thread.get_nof_images() under the queue lock
CaptureCountLocked ==
    /\ capPc = "finish"
    /\ wiq.guard = <<"capture">>
    /\ wiq' = [wiq EXCEPT !.guard = <<>>]
    /\ capPc' = "status"
    /\ UNCHANGED <<disk, fileVars, wt, wimg, wdata, wrPc, info, cap, frame,
                   ctlPc, hist, sched>>

\* capture_id, size, status = true, request = false under the info lock; the
\* image count is the one get_nof_images returned (the queue is at rest)
CaptureFinishLocked ==
    /\ capPc = "status"
    /\ info.guard = <<"capture">>
    /\ LET write_images == WriteThread_get_nof_images(wiq)
       IN  info' = [info EXCEPT
                       !.capture_id = IF write_images > 0
                                      THEN write_images - 1 ELSE 0,
                       !.size = cap.size,
                       !.status = TRUE,
                       !.request = FALSE,
                       !.guard = <<>>]
    /\ capPc' = "poll"
    /\ UNCHANGED <<disk, fileVars, wiq, wt, wimg, wdata, wrPc, cap, frame,
                   ctlPc, hist, sched>>

\* a second passes before the per-frame check reads the session clock
TickUnlocked ==
    /\ info.guard # <<"capture">>
    /\ Tick

\* ---- writer thread --------------------------------------------------------

\* write_image_queue.lock() at the top of the loop and after the finalize
WriterLock ==
    /\ wrPc \in {"loop", "publish"}
    /\ wiq.guard = <<>>
    /\ wiq' = [wiq EXCEPT !.guard = <<"writer">>]
    /\ UNCHANGED <<disk, fileVars, wt, wimg, wdata, wrPc, info, capPc, cap,
                   frame, ctlPc, hist, sched>>

\* a writer that keeps the guard while it writes the buffer it popped
WriterLoopLocked_keep ==
    /\ wrPc = "loop"
    /\ wiq.guard = <<"writer">>
    /\ IF Len(wiq.buffer) > 0
       THEN LET i == PopIndex(wiq.buffer)
                data == wiq.buffer[i]
            IN  /\ wiq' = [wiq EXCEPT !.thread_status = "Running",
                                      !.buffer = RemoveAt(@, i),
                                      !.data_size = @ + Len(data),
                                      !.queue_len = @ - Len(data)]
                /\ wdata' = <<data>>
                /\ wrPc' = "write"
       ELSE /\ wiq' = [wiq EXCEPT !.thread_status = "Running",
                                  !.guard = <<>>]
            /\ wdata' = wdata
            /\ wrPc' = IF wiq.write_done THEN "end" ELSE "loop"
    /\ UNCHANGED <<disk, fileVars, wt, wimg, info, capPc, cap, frame, ctlPc,
                   hist, sched>>

\* a writer that pops a buffer and leaves queue_len as it was
WriterLoopLocked_uncounted ==
    /\ wrPc = "loop"
    /\ wiq.guard = <<"writer">>
    /\ IF Len(wiq.buffer) > 0
       THEN LET i == PopIndex(wiq.buffer)
                data == wiq.buffer[i]
            IN  /\ wiq' = [wiq EXCEPT !.thread_status = "Running",
                                      !.buffer = RemoveAt(@, i),
                                      !.data_size = @ + Len(data),
                                      !.guard = <<>>]
                /\ wdata' = <<data>>
                /\ wrPc' = "write"
       ELSE /\ wiq' = [wiq EXCEPT !.thread_status = "Running",
                                  !.guard = <<>>]
            /\ wdata' = wdata
            /\ wrPc' = IF wiq.write_done THEN "end" ELSE "loop"
    /\ UNCHANGED <<disk, fileVars, wt, wimg, info, capPc, cap, frame, ctlPc,
                   hist, sched>>

\* one turn of the loop under the lock: pop the oldest buffer and drop the
\* guard, or break when the queue is empty and write_done is set, or sleep;
\* the guard is gone in each case
WriterLoopLocked ==
    /\ wrPc = "loop"
    /\ wiq.guard = <<"writer">>
    /\ IF Len(wiq.buffer) > 0
       THEN LET i == PopIndex(wiq.buffer)
                data == wiq.buffer[i]
            IN  /\ wiq' = [wiq EXCEPT !.thread_status = "Running",
                                      !.buffer = RemoveAt(@, i),
                                      !.data_size = @ + Len(data),
                                      !.queue_len = @ - Len(data),
                                      !.guard = <<>>]
                /\ wdata' = <<data>>
                /\ wrPc' = "write"
       ELSE /\ wiq' = [wiq EXCEPT !.thread_status = "Running",
                                  !.guard = <<>>]
            /\ wdata' = wdata
            /\ wrPc' = IF wiq.write_done THEN "end" ELSE "loop"
    /\ UNCHANGED <<disk, fileVars, wt, wimg, info, capPc, cap, frame, ctlPc,
                   hist, sched>>

\* a writer thread that ends without giving the queue mutex back
WriterPublishLocked_held ==
    /\ wrPc = "publish"
    /\ wiq.guard = <<"writer">>
    /\ wiq' = [wiq EXCEPT !.images = get_nof_images(wimg[1]),
                          !.thread_status = "Stopped"]
    /\ wrPc' = "exited"
    /\ UNCHANGED <<disk, fileVars, wt, wimg, wdata, info, capPc, cap, frame,
                   ctlPc, hist, sched>>

\* qlk.images, qlk.thread_status = Stopped; the thread ends and drops qlk
WriterPublishLocked ==
    /\ wrPc = "publish"
    /\ wiq.guard = <<"writer">>
    /\ wiq' = [wiq EXCEPT !.images = get_nof_images(wimg[1]),
                          !.thread_status = "Stopped",
                          !.guard = <<>>]
    /\ wrPc' = "exited"
    /\ UNCHANGED <<disk, fileVars, wt, wimg, wdata, info, capPc, cap, frame,
                   ctlPc, hist, sched>>

ControlLoopMutex ==
    \/ ControlLock
    \/ \E duration \in Durations, mode \in {"Write", "Append"},
          direct \in BOOLEAN : ControlIssueLocked(duration, mode, direct)
    \/ ControlStatusLocked
    \/ ControlStopMovieLocked

CaptureThreadMutex ==
    \/ CaptureLockInfo
    \/ CaptureLockQueue
    \/ CapturePollLocked
    \/ \E os_ok \in BOOLEAN : CaptureSetupLocked(os_ok)
    \/ CaptureAcquire
    \/ CapturePushLocked
    \/ CaptureRelease
    \/ CaptureCheckLocked
    \/ CaptureWaitLocked
    \/ CaptureCountLocked
    \/ CaptureFinishLocked

WriterThreadMutex ==
    \/ \E os_ok \in BOOLEAN : WriterOpen(os_ok)
    \/ WriterLock
    \/ WriterLoopLocked
    \/ WriterWrite
    \/ WriterEnd
    \/ WriterPublishLocked

NextMutex ==
    ControlLoopMutex \/ CaptureThreadMutex \/ WriterThreadMutex
        \/ TickUnlocked

SpecMutex == InitCapture /\ [][NextMutex]_vars

----------------------------------------------------------------------------
(* One caller driving two WriteThreads with the same calls (SpecTwin): a   *)
(* queued one, held in wt, wiq and disk with its writer thread, and a      *)
(* direct one, held in twin with a file of its own.                        *)

\* the file before start(): absent, or a finalized container of one image
TwinDisks ==
    LET o == ImageFiles_new(<<>>, "Write", TRUE)
        w == write_image(o.img[1], o.disk, <<1>>)
    IN  {<<>>, write_image_end(w.img, w.disk).disk}

\* WriteThread::new and start() of both: the direct one opens its file in
\* start(), the queued one spawns the writer thread
InitTwin ==
    \E d \in TwinDisks, mode \in {"Write", "Append"}, os_ok \in BOOLEAN :
        LET o == ImageFiles_new(d, mode, os_ok)
        IN  /\ disk = d
            /\ image_file = <<>> /\ open_mode = "Read" /\ result = NoResult
            /\ sess = NoSess /\ opens = 0
            /\ twin = <<[wt |-> [NewWriteThread(mode, TRUE)
                                    EXCEPT !.image_file = o.img],
                         wiq |-> NewQueue, disk |-> o.disk,
                         panic |-> FALSE]>>
            /\ wiq = NewQueue
            /\ wt = NewWriteThread(mode, FALSE)
            /\ wimg = <<>>
            /\ wdata = <<>>
            /\ wrPc = "open"
            /\ info = NewCaptureInfo
            /\ capPc = "push"
            /\ cap = NewCaptureLocals
            /\ frame = <<>>
            /\ ctlPc = "idle"
            /\ hist = [NoHist EXCEPT !.disk0 = d]
            /\ InitSchedIdle

\* push_data(data) on both
TwinPush(data) ==
    /\ capPc = "push"
    /\ hist.pushes < MaxFrames
    /\ LET r == push_data(wt, wiq, disk, data)
           s == push_data(twin[1].wt, twin[1].wiq, twin[1].disk, data)
       IN  /\ wt' = r.wt
           /\ wiq' = r.wiq
           /\ disk' = r.disk
           /\ twin' = <<[wt |-> s.wt, wiq |-> s.wiq, disk |-> s.disk,
                         panic |-> s.panic]>>
           /\ capPc' = IF s.panic THEN "panicked" ELSE "push"
           /\ hist' = [hist EXCEPT
                         !.pushes = @ + 1,
                         !.accepted = IF r.wiq.buffer # wiq.buffer
                                      THEN Append(@, data) ELSE @]
    /\ UNCHANGED <<image_file, open_mode, result, sess, opens, wimg, wdata,
                   wrPc, info, cap, frame, ctlPc, sched>>

\* stop() on both
TwinStop ==
    /\ capPc = "push"
    /\ LET r == stop(wt, wiq, disk)
           s == stop(twin[1].wt, twin[1].wiq, twin[1].disk)
       IN  /\ wt' = r.wt
           /\ wiq' = r.wiq
           /\ disk' = r.disk
           /\ twin' = <<[wt |-> s.wt, wiq |-> s.wiq, disk |-> s.disk,
                         panic |-> s.panic]>>
           /\ capPc' = IF s.panic THEN "panicked" ELSE "wait"
    /\ hist' = [hist EXCEPT !.stopCalled = TRUE]
    /\ UNCHANGED <<image_file, open_mode, result, sess, opens, wimg, wdata,
                   wrPc, info, cap, frame, ctlPc, sched>>

\* wait_thread() on both has returned
TwinWait ==
    /\ capPc = "wait"
    /\ wait_thread_done(wt, wiq)
    /\ wait_thread_done(twin[1].wt, twin[1].wiq)
    /\ capPc' = "finish"
    /\ UNCHANGED <<disk, fileVars, wiq, wt, wimg, wdata, wrPc, info, cap,
                   frame, ctlPc, hist, sched>>

TwinCaller ==
    \/ \E data \in Frames : TwinPush(data)
    \/ TwinStop
    \/ TwinWait

NextTwin == TwinCaller \/ WriterThread

SpecTwin == InitTwin /\ [][NextTwin]_vars

----------------------------------------------------------------------------
(* Capture cycles of the single-shot mode (SpecCycles): the control loop   *)
(* asks for one capture after the other, waiting for each; sched holds the *)
(* loop's locals.                                                          *)

\* completed cycles of a run
MaxCycles == 3

\* the loop overwriting at every cycle
set_overwrite_saved_always(capture_id, overwrite_saved) ==
    IF overwrite_saved THEN "Write" ELSE "Append"

\* if capture_id == 0 { set_overwrite_saved(server_info.overwrite_saved) }
\* else { set_overwrite_saved(false) }: the open mode the next session finds
set_overwrite_saved(capture_id, overwrite_saved) ==
    IF capture_id = 0 /\ overwrite_saved THEN "Write" ELSE "Append"

\* cold boot: IMAGE_COUNT_ID is 0; the container of the track is absent or
\* holds one image of an earlier sequence
InitCycles ==
    /\ disk \in TwinDisks
    /\ InitFileIdle
    /\ wiq = NewQueue
    /\ wt = NewWriteThread("Append", FALSE)
    /\ wimg = <<>>
    /\ wdata = <<>>
    /\ wrPc = "none"
    /\ info = NewCaptureInfo
    /\ capPc = "poll"
    /\ cap = NewCaptureLocals
    /\ frame = <<>>
    /\ ctlPc = "idle"
    /\ hist = NoHist
    /\ \E overwrite_saved \in BOOLEAN :
          sched = [capture_id |-> 0, overwrite_saved |-> overwrite_saved,
                   current_capture_id |-> 0, cycles |-> 0,
                   fresh |-> disk = <<>>]

\* capture_started in single-shot mode: set_capturing_duration(0),
\* autofocus_request, set_overwrite_saved, capture_request(track, capture_id)
CycleRequest ==
    /\ ctlPc = "idle"
    /\ sched.cycles < MaxCycles
    /\ info' = [info EXCEPT
                   !.capturing_duration = 0,
                   !.open_mode = set_overwrite_saved(sched.capture_id,
                                                     sched.overwrite_saved),
                   !.autofocus_request = TRUE,
                   !.request = TRUE,
                   !.status = FALSE,
                   !.capture_id = sched.capture_id]
    /\ ctlPc' = "waiting"
    /\ hist' = [hist EXCEPT !.requests = @ + 1, !.cancelled = <<>>]
    /\ UNCHANGED <<disk, fileVars, wiq, wt, wimg, wdata, wrPc, capPc, cap,
                   frame, sched>>

\* "Capture done": capture_id = get_capture_id(); with the status true the
\* id is reported as current_capture_id and capture_id is incremented
CycleDone ==
    /\ ctlPc = "waiting"
    /\ info.status
    /\ sched' = [sched EXCEPT !.current_capture_id = info.capture_id,
                              !.capture_id = info.capture_id + 1,
                              !.cycles = @ + 1]
    /\ ctlPc' = "idle"
    /\ UNCHANGED <<disk, fileVars, wiq, wt, wimg, wdata, wrPc, info, capPc,
                   cap, frame, hist>>

ControlLoopCycles == CycleRequest \/ CycleDone

NextCycles == ControlLoopCycles \/ CaptureThread \/ WriterThread \/ Tick

SpecCycles == InitCycles /\ [][NextCycles]_vars

----------------------------------------------------------------------------
(* Wake-time scheduler: get_next_wake_time (main.rs).                      *)
(* A SystemTime is the whole seconds since the Unix epoch and the position *)
(* inside the second; a Duration has the same two parts.                   *)

\* positions inside a second the model tells apart (nanoseconds in the code)
SubSecond == 2

T(s, f) == [secs |-> s, sub |-> f]

\* a < b on SystemTime or Duration
Lt(a, b) == a.secs < b.secs \/ (a.secs = b.secs /\ a.sub < b.sub)

\* t + Duration::from_secs(d)
AddSecs(t, d) == [t EXCEPT !.secs = @ + d]

\* Duration::as_secs: the whole seconds, the rest is dropped
as_secs(d) == d.secs

\* a.duration_since(b): <<a - b>>, or <<>> (Err) when a is before b
duration_since(a, b) ==
    IF Lt(a, b) THEN <<>>
    ELSE IF a.sub >= b.sub THEN <<T(a.secs - b.secs, a.sub - b.sub)>>
    ELSE <<T(a.secs - b.secs - 1, a.sub + SubSecond - b.sub)>>

\* chrono's proleptic Gregorian calendar
IsLeapYear(y) == (y % 4 = 0 /\ y % 100 # 0) \/ y % 400 = 0

DaysInMonth(y, m) ==
    IF m = 2 THEN (IF IsLeapYear(y) THEN 29 ELSE 28)
    ELSE IF m \in {4, 6, 9, 11} THEN 30 ELSE 31

\* days from 1970-01-01 to the civil date y-m-d
DaysFromCivil(y, m, d) ==
    LET yy  == IF m <= 2 THEN y - 1 ELSE y
        era == yy \div 400
        yoe == yy - era * 400
        mp  == IF m > 2 THEN m - 3 ELSE m + 9
        doy == (153 * mp + 2) \div 5 + d - 1
        doe == yoe * 365 + yoe \div 4 - yoe \div 100 + doy
    IN  era * 146097 + doe - 719468

\* the civil date of a day number
CivilFromDays(z0) ==
    LET z   == z0 + 719468
        era == z \div 146097
        doe == z - era * 146097
        yoe == (doe - doe \div 1460 + doe \div 36524 - doe \div 146096) \div 365
        doy == doe - (365 * yoe + yoe \div 4 - yoe \div 100)
        mp  == (5 * doy + 2) \div 153
        d   == doy - (153 * mp + 2) \div 5 + 1
        m   == IF mp < 10 THEN mp + 3 ELSE mp - 9
        y   == yoe + era * 400 + (IF m <= 2 THEN 1 ELSE 0)
    IN  [year |-> y, month |-> m, day |-> d]

\* NaiveDate::from_ymd_opt(y, m, d).unwrap().and_hms_opt(h, mi, 0).unwrap():
\* the naive local time in seconds, or <<>> where an unwrap meets None
NaiveLocal(y, m, d, h, mi) ==
    IF m \in 1..12 /\ d >= 1 /\ d <= DaysInMonth(y, m) /\ h \in 0..23
       /\ mi \in 0..59
    THEN <<DaysFromCivil(y, m, d) * 86400 + h * 3600 + mi * 60>>
    ELSE <<>>

\* the three results of a call: Some(instant), None, or a panic
Some(t) == [kind |-> "Some", time |-> t]
None == [kind |-> "None", time |-> T(0, 0)]
Panic == [kind |-> "Panic", time |-> T(0, 0)]

\* the window test of the periodic branch
PeriodicWindow_ignored(next, capture_start_time, capture_end_time) ==
    IF Lt(capture_start_time, capture_end_time)
       /\ Lt(next, capture_start_time)
    THEN Some(capture_start_time)
    ELSE IF Lt(capture_end_time, next) THEN None
    ELSE Some(next)

PeriodicWindow(next, capture_start_time, capture_end_time) ==
    IF Lt(capture_start_time, capture_end_time)
    THEN IF Lt(next, capture_start_time) THEN Some(capture_start_time)
         ELSE IF Lt(capture_end_time, next) THEN None
         ELSE Some(next)
    ELSE Some(next)

\* the window test that ends the leap-time branch
LeapWindow(next, capture_start_time, capture_end_time, now) ==
    IF Lt(next, capture_start_time) THEN Some(capture_start_time)
    ELSE IF Lt(capture_end_time, next) /\ Lt(now, capture_end_time) THEN None
    ELSE Some(next)

\* if now_naive < leap_time.naive_local() { leap_time.into() } else { other }:
\* l is the naive local time of leap_time, <<>> where building it panicked;
\* now_naive is local seconds and a part of a second, leap_time whole seconds
Later_orNow(local, off, l, other) ==
    IF l = <<>> THEN <<>>
    ELSE IF local <= l[1] THEN <<T(l[1] - off, 0)>> ELSE other

Later(local, off, l, other) ==
    IF l = <<>> THEN <<>>
    ELSE IF local < l[1] THEN <<T(l[1] - off, 0)>> ELSE other

\* naive_local time l of the offset off as a SystemTime (into())
Utc(off, l) == IF l = <<>> THEN <<>> ELSE <<T(l[1] - off, 0)>>

\* the leap-time branch up to the window test: <<instant>>, or <<>> where an
\* unwrap panics. local: the seconds of the clock in the configured offset.
LeapInstant(lt, local, off, next_capture_time) ==
    LET today == CivilFromDays(local \div 86400)
        now_hour == (local % 86400) \div 3600
        tomorrow == CivilFromDays(local \div 86400 + 1)
    IN  IF lt.day > 0
        THEN LET lt_hour == IF lt.hour < 0 THEN 0 ELSE lt.hour
                 lt_minute == IF lt.minute < 0 THEN 0 ELSE lt.minute
                 next_year == IF today.month = 12 THEN today.year + 1
                              ELSE today.year
                 next_month == IF today.month = 12 THEN 1
                               ELSE today.month + 1
             IN  Later(local, off,
                       NaiveLocal(today.year, today.month, lt.day,
                                  lt_hour, lt_minute),
                       Utc(off, NaiveLocal(next_year, next_month, lt.day,
                                           lt_hour, lt_minute)))
        ELSE IF lt.hour >= 0
        THEN LET lt_minute == IF lt.minute < 0 THEN 0 ELSE lt.minute
             IN  Later(local, off,
                       NaiveLocal(today.year, today.month, today.day,
                                  lt.hour, lt_minute),
                       Utc(off, NaiveLocal(tomorrow.year, tomorrow.month,
                                           tomorrow.day, lt.hour, lt_minute)))
        ELSE IF lt.minute > 0
        THEN Later(local, off,
                   NaiveLocal(today.year, today.month, today.day,
                              now_hour, lt.minute),
                   IF now_hour = 23
                   THEN Utc(off, NaiveLocal(tomorrow.year, tomorrow.month,
                                            tomorrow.day, 0, lt.minute))
                   ELSE Utc(off, NaiveLocal(today.year, today.month,
                                            today.day, now_hour + 1,
                                            lt.minute)))
        ELSE <<next_capture_time>>

\* get_next_wake_time; now is what SystemTime::now() and Local::now() return
get_next_wake_time(lt, timezone, next_capture_time, duration, capture_start_time, capture_end_time, now) ==
    IF duration > 0
    THEN PeriodicWindow(AddSecs(next_capture_time, duration),
                        capture_start_time, capture_end_time)
    ELSE IF ~(timezone * 60 * 60 > -86400 /\ timezone * 60 * 60 < 86400)
    THEN Panic
    ELSE LET off == timezone * 60 * 60
             l == LeapInstant(lt, now.secs + off, off, next_capture_time)
         IN  IF l = <<>> THEN Panic
             ELSE LeapWindow(l[1], capture_start_time, capture_end_time, now)

----------------------------------------------------------------------------
(* The scheduler applied to bounded inputs (SpecSched).                    *)

\* the seconds of 2024-03-10 14:05:00, 2024-03-10 09:00:00,
\* 2024-12-31 23:30:00 and 2024-01-31 08:00:00 UTC
NowSecs == {1710079500, 1710061200, 1735687800, 1706688000}

\* the clock: these seconds, at each position inside the second
Nows == {T(s, f) : s \in NowSecs, f \in 0..(SubSecond - 1)}

\* leap-time fields; a negative value means unspecified
LeapDays == {-1, 10, 31}
LeapHours == {-1, 9, 23}
LeapMinutes == {-1, 0, 30}
Timezones == {0, 9}

\* the duration setting: leap-time mode (0) or a period in seconds
Periods == {0, 50, 90}

\* capture windows as (start, end) around the clock t: none (start = end,
\* the default), the window of the example and one that ends where the
\* example's period lands, one ahead of t, one around t
Windows(t) ==
    {<<t, t>>, <<T(80, 0), T(120, 0)>>, <<T(80, 0), T(150, 0)>>,
     <<AddSecs(t, 10), AddSecs(t, 100)>>,
     <<AddSecs(t, -100), AddSecs(t, 3600)>>}

\* the previous instant: the example's, one before the clock, the clock
PrevTimes(t) == {T(100, 0), AddSecs(t, -60), t}

InitSched ==
    /\ disk = <<>>
    /\ InitFileIdle
    /\ InitQueueIdle
    /\ \E now \in Nows, day \in LeapDays, hour \in LeapHours,
          minute \in LeapMinutes, timezone \in Timezones,
          duration \in Periods :
       \E w \in Windows(now), prev \in PrevTimes(now) :
          sched = [now |-> now,
                   lt |-> [day |-> day, hour |-> hour, minute |-> minute],
                   timezone |-> timezone,
                   next_capture_time |-> prev,
                   duration |-> duration,
                   capture_start_time |-> w[1],
                   capture_end_time |-> w[2],
                   called |-> FALSE,
                   previous |-> prev,
                   out |-> None]

\* next_capture_time = match get_next_wake_time(...) { Some(time) => time, .. }
Schedule ==
    /\ ~sched.called
    /\ LET r == get_next_wake_time(sched.lt, sched.timezone,
                                   sched.next_capture_time, sched.duration,
                                   sched.capture_start_time,
                                   sched.capture_end_time, sched.now)
       IN  sched' = [sched EXCEPT
                        !.called = TRUE,
                        !.out = r,
                        !.previous = sched.next_capture_time,
                        !.next_capture_time =
                            IF r.kind = "Some" THEN r.time ELSE @]
    /\ UNCHANGED <<disk, fileVars, queueVars>>

NextSched == Schedule

SpecSched == InitSched /\ [][NextSched]_vars

----------------------------------------------------------------------------
(* The control loop with its sleeps and restarts (SpecLoop): main.rs.      *)

\* capture cycles of one run
MaxCaptures == 3

\* t + d for a SystemTime t and a Duration d
AddDur(t, d) ==
    T(t.secs + d.secs + (t.sub + d.sub) \div SubSecond,
      (t.sub + d.sub) % SubSecond)

\* UNIX_EPOCH + Duration::from_secs(secs)
FromSecs(secs) == T(secs, 0)

\* the #[link_section = ".rtc.data"] statics, as they are after power-on
RtcZero ==
    [IMAGE_COUNT_ID |-> 0, DEEP_SLEEP_AUTO_CAPTURE |-> FALSE,
     NEXT_CAPTURE_TIME |-> 0, DURATION_TIME |-> 0, CURRENT_RESOLUTION |-> 0,
     CURRENT_TRACK_ID |-> 0, LAST_CAPTURE_TIME |-> 0, LAST_POSTED_TIME |-> 0,
     CAPTURE_START_TIME |-> 0, CAPTURE_END_TIME |-> 0,
     LAST_STATUS_POSTED_TIME |-> 0]

\* no capture window: the statics of a power-on boot put start and end at
\* the epoch
NoCaptureWindow == <<FromSecs(0), FromSecs(0)>>

\* the settings of a run: a period in seconds, a period inside a capture
\* window that ends two minutes after power-on, leap time at an hour, leap
\* time on a day
Policies ==
    {[duration |-> d, window |-> NoCaptureWindow,
      leap_time |-> [day |-> -1, hour |-> -1, minute |-> -1]] :
        d \in {50, 61, 90}}
    \cup {[duration |-> 50,
           window |-> <<FromSecs(1710079500 - 100), FromSecs(1710079500 + 120)>>,
           leap_time |-> [day |-> -1, hour |-> -1, minute |-> -1]],
          [duration |-> 0, window |-> NoCaptureWindow,
           leap_time |-> [day |-> -1, hour |-> 9, minute |-> -1]],
          [duration |-> 0, window |-> NoCaptureWindow,
           leap_time |-> [day |-> 31, hour |-> -1, minute |-> -1]]}

\* how long a capture cycle takes, and how long the boot after a wake takes
CaptureTimes == {T(0, 1), T(1, 0), T(28, 1), T(29, 1)}
BootTimes == {T(4, 0), T(4, 1)}

\* the clock at power-on: 2024-03-10 14:05:00 UTC, at each position inside
\* the second
BootNows == {T(1710079500, f) : f \in 0..(SubSecond - 1)}

\* the statics written before a timed deep sleep
Checkpoint(s) ==
    [IMAGE_COUNT_ID |-> s.capture_id,
     DEEP_SLEEP_AUTO_CAPTURE |-> TRUE,
     NEXT_CAPTURE_TIME |-> as_secs(s.next_capture_time),
     DURATION_TIME |-> s.current_duration,
     CURRENT_RESOLUTION |-> s.current_resolution,
     CURRENT_TRACK_ID |-> s.current_track_id,
     LAST_CAPTURE_TIME |-> as_secs(s.server_info.last_capture_date_time),
     LAST_POSTED_TIME |-> as_secs(s.server_info.last_posted_date_time),
     CAPTURE_START_TIME |-> as_secs(s.server_info.capture_start_time),
     CAPTURE_END_TIME |-> as_secs(s.server_info.capture_end_time),
     LAST_STATUS_POSTED_TIME |-> as_secs(s.last_status_posted_time)]

\* the statics written when the scheduler returned None ("Capture end")
EndCheckpoint(s) ==
    [Checkpoint(s) EXCEPT !.IMAGE_COUNT_ID = 0,
                          !.DEEP_SLEEP_AUTO_CAPTURE = FALSE,
                          !.NEXT_CAPTURE_TIME = s.rtc.NEXT_CAPTURE_TIME]

\* a deep sleep that arms the timer whatever the interval is
deep_and_light_sleep_start_armed(wakeup_interval) == <<wakeup_interval>>

\* deep_and_light_sleep_start(SleepModeDeep, wakeup_interval): the timer wake
\* is enabled for an interval above zero (an Option: the seconds it is set to)
deep_and_light_sleep_start(wakeup_interval) ==
    IF wakeup_interval > 0 THEN <<wakeup_interval>> ELSE <<>>

\* match sleep_time.as_secs() { 0 => .., 1..=60 => .., _ => deep sleep }
PowerDown_late(secs) == ~(secs \in 0..61)

PowerDown(secs) == ~(secs \in 0..60)

\* NEXT_CAPTURE_TIME read back with the part of the second it had
Restore_exact(secs, before) == T(secs, before.sub)

\* next_capture_time = UNIX_EPOCH + Duration::from_secs(NEXT_CAPTURE_TIME)
Restore(secs, before) == FromSecs(secs)

\* main() up to the loop after a power-on boot, the server running
InitLoop ==
    /\ disk = <<>>
    /\ InitFileIdle
    /\ InitQueueIdle
    /\ \E now \in BootNows, p \in Policies :
          sched = [pc |-> "top",
                   now |-> now,
                   rtc |-> RtcZero,
                   operating_mode |-> TRUE,
                   server_info |->
                      [duration |-> p.duration,
                       leap_time |-> p.leap_time,
                       timezone |-> 0,
                       resolution |-> 1,
                       track_id |-> 1,
                       capture_started |-> FALSE,
                       last_capture_date_time |-> FromSecs(0),
                       last_posted_date_time |-> FromSecs(0),
                       capture_start_time |-> p.window[1],
                       capture_end_time |-> p.window[2]],
                   last_status_posted_time |-> FromSecs(0),
                   next_capture_time |-> FromSecs(0),
                   capture_id |-> 0,
                   current_track_id |-> 1,
                   current_duration |-> p.duration,
                   current_resolution |-> 1,
                   images |-> 0,
                   T0 |-> FromSecs(0),
                   n |-> 0,
                   cycles |-> 0,
                   powered |-> FALSE,
                   sleep_time |-> T(0, 0),
                   wait |-> "none",
                   timer |-> <<>>]

\* the server sets capture_started (POST of the start command)
UserStart ==
    /\ sched.pc = "top"
    /\ sched.operating_mode
    /\ ~sched.server_info.capture_started
    /\ sched.cycles = 0
    /\ sched' = [sched EXCEPT !.server_info.capture_started = TRUE]
    /\ UNCHANGED <<disk, fileVars, queueVars>>

\* top of the loop with capture_started: a sequence begins at capture_id 0
\* with next_capture_time = now; capture_request
LoopTop ==
    /\ sched.pc = "top"
    /\ sched.server_info.capture_started
    /\ sched.cycles < MaxCaptures
    /\ sched' = [sched EXCEPT
          !.pc = "capturing",
          !.next_capture_time = IF sched.capture_id = 0 THEN sched.now ELSE @,
          !.T0 = IF sched.capture_id = 0 THEN sched.now ELSE @,
          !.n = IF sched.capture_id = 0 THEN 0 ELSE @,
          !.powered = IF sched.capture_id = 0 THEN FALSE ELSE @,
          !.cycles = @ + 1]
    /\ UNCHANGED <<disk, fileVars, queueVars>>

\* the session is done: capture_id = get_capture_id() (the images of the
\* container less one), last_capture_date_time = now, capture_id += 1
CaptureDone ==
    /\ sched.pc = "capturing"
    /\ \E c \in CaptureTimes :
          LET now == AddDur(sched.now, c)
              images == sched.images + 1
          IN  sched' = [sched EXCEPT
                 !.pc = "schedule",
                 !.now = now,
                 !.images = images,
                 !.capture_id = (images - 1) + 1,
                 !.server_info.last_capture_date_time = now]
    /\ UNCHANGED <<disk, fileVars, queueVars>>

\* next_capture_time = match get_next_wake_time(..): on None the statics are
\* written and deep_and_light_sleep_start(SleepModeDeep, 0) is called
ScheduleNext ==
    /\ sched.pc = "schedule"
    /\ LET r == get_next_wake_time(sched.server_info.leap_time,
                                   sched.server_info.timezone,
                                   sched.next_capture_time,
                                   sched.server_info.duration,
                                   sched.server_info.capture_start_time,
                                   sched.server_info.capture_end_time,
                                   sched.now)
       IN  sched' =
             IF r.kind = "Some"
             THEN [sched EXCEPT !.pc = "sleep",
                                !.next_capture_time = r.time,
                                !.n = @ + 1]
             ELSE IF r.kind = "None"
             THEN [sched EXCEPT !.pc = "ended",
                                !.server_info.capture_started = FALSE,
                                !.capture_id = 0,
                                !.rtc = EndCheckpoint(
                                          [sched EXCEPT !.capture_id = 0]),
                                !.timer = deep_and_light_sleep_start(0)]
             ELSE [sched EXCEPT !.pc = "panicked"]
    /\ UNCHANGED <<disk, fileVars, queueVars>>

\* the wait until next_capture_time: one second when it has passed
SleepTime(s) ==
    LET d == duration_since(s.next_capture_time, s.now)
    IN  IF d = <<>> THEN T(1, 0) ELSE d[1]

\* the sleep decision: a wait inside the process, or the checkpoint and a
\* deep sleep with the timer set to the whole seconds of the wait
Sleep ==
    /\ sched.pc = "sleep"
    /\ LET sleep_time == SleepTime(sched)
       IN  sched' =
             IF PowerDown(as_secs(sleep_time))
             THEN [sched EXCEPT !.pc = "deep_sleep",
                                !.rtc = Checkpoint(sched),
                                !.powered = TRUE,
                                !.sleep_time = sleep_time,
                                !.wait = "power_down",
                                !.timer = deep_and_light_sleep_start(
                                             as_secs(sleep_time))]
             ELSE [sched EXCEPT
                     !.pc = "top",
                     !.sleep_time = sleep_time,
                     !.now = IF as_secs(sleep_time) = 0
                             THEN AddSecs(sched.now, 1)
                             ELSE AddDur(sched.now, sleep_time),
                     !.wait = "in_process"]
    /\ UNCHANGED <<disk, fileVars, queueVars>>

\* the timer, if it was armed, fires and main() runs again: not operating
\* mode, the settings and the position of the sequence come from the statics
TimerWake ==
    /\ sched.pc \in {"deep_sleep", "ended"}
    /\ sched.timer # <<>>
    /\ \E b \in BootTimes :
          LET slept == 1 + sched.timer[1]
              rtc == sched.rtc
          IN  sched' = [sched EXCEPT
                 !.pc = "top",
                 !.timer = <<>>,
                 !.now = AddDur(AddSecs(sched.now, slept), b),
                 !.operating_mode = FALSE,
                 !.server_info =
                    [@ EXCEPT
                       !.duration = rtc.DURATION_TIME,
                       !.resolution = rtc.CURRENT_RESOLUTION,
                       !.track_id = rtc.CURRENT_TRACK_ID,
                       !.capture_started = rtc.DEEP_SLEEP_AUTO_CAPTURE,
                       !.last_capture_date_time =
                            FromSecs(rtc.LAST_CAPTURE_TIME),
                       !.last_posted_date_time =
                            FromSecs(rtc.LAST_POSTED_TIME),
                       !.capture_start_time =
                            FromSecs(rtc.CAPTURE_START_TIME),
                       !.capture_end_time = FromSecs(rtc.CAPTURE_END_TIME)],
                 !.last_status_posted_time =
                      FromSecs(rtc.LAST_STATUS_POSTED_TIME),
                 !.next_capture_time =
                      Restore(rtc.NEXT_CAPTURE_TIME, sched.next_capture_time),
                 !.capture_id = rtc.IMAGE_COUNT_ID,
                 !.current_track_id = rtc.CURRENT_TRACK_ID,
                 !.current_duration = rtc.DURATION_TIME,
                 !.current_resolution = rtc.CURRENT_RESOLUTION]
    /\ UNCHANGED <<disk, fileVars, queueVars>>

NextLoop ==
    \/ UserStart
    \/ LoopTop
    \/ CaptureDone
    \/ ScheduleNext
    \/ Sleep
    \/ TimerWake

SpecLoop == InitLoop /\ [][NextLoop]_vars

----------------------------------------------------------------------------
(* Claims about the container format engine (checked under Spec).          *)

\* the first 16 bytes of the file, as a reader sees them
DiskHeader(d) == Pad(FileRead(d, 0, 16), 16)
HeaderCount(d) == FromLE(SubSeq(DiskHeader(d), 5, 8))
HeaderSize(d) == FromLE(SubSeq(DiskHeader(d), 9, 16))

\* a write session that started from count 0 and ended with finalize, with
\* no write_image after it
WriteSessionDone ==
    /\ open_mode = "Write" \/ sess.renewed
    /\ sess.finalized >= 1
    /\ ~sess.dirty

\* C1: round trip. Whatever buffers (empty ones included) were written with
\* write_image and followed by finalize, reopening in Read mode and calling
\* read_image repeatedly returns the same buffers in the same order, and
\* get_nof_images() is the number of buffers written.
C1_RoundTrip ==
    WriteSessionDone =>
        /\ ReadBack(disk).res = "Ok"
        /\ ReadBack(disk).images = sess.written
        /\ ReadBack(disk).nof = Len(sess.written)

\* C7: opening in Read mode a file whose first 4 bytes are not the magic tag
\* (an empty or short file included) returns InvalidHeader, yields no handle
\* and no image, and leaves the file as it was.
C7_OpenReadStep ==
    /\ opens' = opens + 1
    /\ open_mode' = "Read"
    /\ result'.res # "OpenFailed"
    /\ HeaderMismatch(DiskHeader(disk))

C7_ReadRejectsBadMagic ==
    [][C7_OpenReadStep =>
          /\ result'.res = "InvalidHeader"
          /\ image_file' = <<>>
          /\ disk' = disk
          /\ ReadBack(disk').images = <<>>]_vars

C7_Witness ==
    /\ result.op = "new"
    /\ result.res = "InvalidHeader"
    /\ open_mode = "Read"
    /\ Len(disk) > 16
    /\ image_file = <<>>

\* C8: opening in Append mode a file whose first 4 bytes are not the magic
\* tag succeeds, rewrites the header with count 0 and size 0 and puts the
\* write cursor just past the header; from then on every call returns what it
\* returns on a freshly created container, leaves the handle in the same
\* state and the file with the same content, and a reader gets the same.
C8_AppendRenewsHeader ==
    twin # <<>> =>
        /\ sess.renewed
        /\ image_file = <<twin[1].img>>
        /\ result = twin[1].result
        /\ SubSeq(disk, 1, Len(twin[1].disk)) = twin[1].disk
        /\ ReadBack(disk) = ReadBack(twin[1].disk)
        /\ sess.ops = 0 =>
              /\ result.res = "Ok"
              /\ SubSeq(disk, 1, 16) = FILE_HEADER
              /\ image_file[1].write_pos = Len(FILE_HEADER)
              /\ image_file[1].nimages = 0
              /\ image_file[1].total_size = 0

C8_Witness ==
    /\ twin # <<>>
    /\ Len(disk) > 16
    /\ disk[17] = 68
    /\ sess.finalized = 1
    /\ ~sess.dirty
    /\ Len(sess.written) = 2
    /\ result.op = "read_image"
    /\ result.res = "Ok"
    /\ ReadBack(disk).images = sess.written

\* C9: a second finalize right after the first leaves the header with the
\* same count and the same size, and a reader still gets the same images in
\* the same order.
C9_SecondEndStep ==
    /\ result.op = "write_image_end"
    /\ result'.op = "write_image_end"
    /\ sess'.finalized = sess.finalized + 1

C9_IdempotentFinalize ==
    [][C9_SecondEndStep =>
          /\ DiskHeader(disk') = DiskHeader(disk)
          /\ HeaderCount(disk') = HeaderCount(disk)
          /\ HeaderSize(disk') = HeaderSize(disk)
          /\ ReadBack(disk') = ReadBack(disk)]_vars

C9_Witness ==
    /\ result.op = "write_image_end"
    /\ sess.finalized = 2
    /\ ~sess.dirty
    /\ Len(sess.written) = 2
    /\ open_mode = "Write"
    /\ HeaderCount(disk) = 2
    /\ ReadBack(disk).images = sess.written

----------------------------------------------------------------------------
(* Claims about the write-behind queue and the capture session             *)
(* (checked under SpecCapture and FairSpecCapture).                        *)

Queued == ~wt.direct_write_mode

\* C2: FIFO. In queued mode, with the capture thread pushing and the writer
\* popping concurrently, the buffers handed to write_image, then the buffer
\* the writer holds, then the buffers still queued are the accepted pushes
\* in their order; once the writer has left its loop it has handed over every
\* accepted buffer, none twice, none lost, none out of order.
C2_FIFO ==
    Queued =>
        /\ hist.handed \o wdata \o wiq.buffer = hist.accepted
        /\ wrPc \in {"end", "publish", "exited"} => hist.handed = hist.accepted

C2_Witness ==
    /\ Queued
    /\ wrPc = "write"
    /\ wdata # <<>>
    /\ Len(wiq.buffer) = 2
    /\ wiq.buffer[1] # wiq.buffer[2]

\* C3: backpressure. In queued mode queue_len never exceeds MAX_QUEUE_SIZE;
\* a push is accepted exactly when queue_len + len(buffer) <= MAX_QUEUE_SIZE;
\* the drop counter goes up by one at each rejected push and changes at no
\* other step of a session.
C3_PushStep == Queued /\ hist'.pushes = hist.pushes + 1

C3_Fits == wiq.queue_len + Len(frame[1]) <= MAX_QUEUE_SIZE

C3_Backpressure ==
    /\ [](wiq.queue_len <= MAX_QUEUE_SIZE)
    /\ [](Queued => wt.drop_frames = hist.pushes - Len(hist.accepted))
    /\ [][C3_PushStep =>
            /\ C3_Fits =>
                 /\ wiq'.buffer = Append(wiq.buffer, frame[1])
                 /\ wiq'.queue_len = wiq.queue_len + Len(frame[1])
                 /\ wt'.drop_frames = wt.drop_frames
            /\ ~C3_Fits =>
                 /\ wiq'.buffer = wiq.buffer
                 /\ wiq'.queue_len = wiq.queue_len
                 /\ wt'.drop_frames = wt.drop_frames + 1]_vars
    /\ [][(hist'.pushes = hist.pushes /\ capPc # "setup") =>
            wt'.drop_frames = wt.drop_frames]_vars

C3_Witness ==
    /\ Queued
    /\ wt.drop_frames = 1
    /\ wiq.queue_len = MAX_QUEUE_SIZE
    /\ Len(wiq.buffer) = 2
    /\ hist.pushes = 3

\* C4: a session that ends early because the sensor returned no frame still
\* finalizes the container (end-marker written, header rewritten with the
\* count and size of the frames stored so far) before it completes (status
\* set, request cleared), in queued and in direct mode.
SessionImage == IF Queued THEN wimg ELSE wt.image_file

C4_EarlyEndFinalizes ==
    (hist.noFrame /\ capPc = "poll" /\ info.status /\ ~info.request
       /\ ~hist.openFailed) =>
        /\ hist.ends >= 1
        /\ SessionImage # <<>>
        /\ HeaderCount(disk) = SessionImage[1].nimages
        /\ HeaderSize(disk) = SessionImage[1].total_size

\* C5: termination of the write-behind queue. In queued mode with the
\* container open, once stop() was called the writer eventually has drained
\* the queue, finalized and set Stopped, and the caller of wait_thread()
\* eventually gets past it; in direct mode wait_thread() returns at once.
C5_Stopping == Queued /\ wiq.write_done /\ wimg # <<>>

C5_Termination ==
    /\ C5_Stopping ~>
          (/\ wiq.thread_status = "Stopped"
           /\ wiq.buffer = <<>>
           /\ hist.handed = hist.accepted
           /\ hist.ends = 1)
    /\ (C5_Stopping /\ capPc = "wait") ~> capPc = "finish"
    /\ (~Queued /\ capPc = "wait") ~> capPc = "finish"
    /\ []((~Queued /\ capPc = "wait") => ENABLED CaptureWait)

C5_Witness ==
    /\ Queued
    /\ hist.stopCalled
    /\ wiq.thread_status = "Stopped"
    /\ capPc = "finish"
    /\ Len(hist.handed) = 2
    /\ hist.ends = 1

\* C6: when the container cannot be opened at the start of a session,
\* nothing is written and the capture thread does not panic.
C6_OpenFailureSurfaced ==
    hist.openFailed =>
        /\ capPc # "panicked"
        /\ disk = hist.disk0

----------------------------------------------------------------------------
(* Claims about the scheduler (checked under SpecSched).                   *)

NoWindow == ~Lt(sched.capture_start_time, sched.capture_end_time)

\* C10: periodic scheduling. With a duration D > 0 and no capture window
\* configured, get_next_wake_time returns exactly previous + D, whatever the
\* current time and the leap-time fields are.
C10_Periodic ==
    (sched.called /\ sched.duration > 0 /\ NoWindow) =>
        sched.out = Some(AddSecs(sched.previous, sched.duration))

C10_Witness ==
    /\ sched.called
    /\ sched.duration = 50
    /\ NoWindow
    /\ sched.previous = T(100, 0)
    /\ sched.lt.hour = 9
    /\ sched.out = Some(T(150, 0))

\* the instant a periodic call computes before the window is looked at
PeriodicNext == AddSecs(sched.previous, sched.duration)

WindowSet == Lt(sched.capture_start_time, sched.capture_end_time)

\* C11: periodic window clamp. In periodic mode with a window [start, end)
\* set, previous + duration before start gives start, previous + duration at
\* or after end gives the terminal result, and anything else gives
\* previous + duration.
C11_PeriodicClamp ==
    (sched.called /\ sched.duration > 0 /\ WindowSet) =>
        sched.out = IF Lt(PeriodicNext, sched.capture_start_time)
                    THEN Some(sched.capture_start_time)
                    ELSE IF ~Lt(PeriodicNext, sched.capture_end_time)
                    THEN None
                    ELSE Some(PeriodicNext)

\* get_next_wake_time was called in leap-time mode
LeapCalled == sched.called /\ sched.duration = 0

\* no capture window was configured: start and end are the instant the
\* settings were created (server.rs, ControlServerInfo::new), not after now
DefaultWindow ==
    /\ sched.capture_start_time = sched.capture_end_time
    /\ ~Lt(sched.now, sched.capture_end_time)

\* seconds into the day, and into the hour, of the result's local time
OutLocalSecs == sched.out.time.secs + sched.timezone * 3600

MinuteOrZero == IF sched.lt.minute < 0 THEN 0 ELSE sched.lt.minute

HourOrZero == IF sched.lt.hour < 0 THEN 0 ELSE sched.lt.hour

\* C12: leap time with the hour specified and the day unspecified. The
\* result is the first instant strictly after now whose local time of day, in
\* the configured offset, is hour:minute:00 (minute 0 when unspecified):
\* today if that is still ahead, otherwise tomorrow.
C12_LeapHour ==
    (LeapCalled /\ sched.lt.day < 0 /\ sched.lt.hour >= 0 /\ DefaultWindow) =>
        /\ sched.out.kind = "Some"
        /\ sched.out.time.sub = 0
        /\ Lt(sched.now, sched.out.time)
        /\ sched.out.time.secs - sched.now.secs <= 86400
        /\ OutLocalSecs % 86400 = sched.lt.hour * 3600 + MinuteOrZero * 60

\* the example: now 2024-03-10 14:05 UTC+0, hour 9, minute 0 gives
\* 2024-03-11 09:00
C12_Witness ==
    /\ LeapCalled /\ DefaultWindow
    /\ sched.now = T(1710079500, 0)
    /\ sched.timezone = 0
    /\ sched.lt = [day |-> -1, hour |-> 9, minute |-> 0]
    /\ sched.out = Some(T(DaysFromCivil(2024, 3, 11) * 86400 + 9 * 3600, 0))

\* the civil date and the time of day of the clock and of the result, in the
\* configured offset
NowLocalDate == CivilFromDays((sched.now.secs + sched.timezone * 3600) \div 86400)

OutLocalDate == CivilFromDays(OutLocalSecs \div 86400)

\* the month after the clock's month
MonthAfterNow ==
    IF NowLocalDate.month = 12
    THEN [year |-> NowLocalDate.year + 1, month |-> 1]
    ELSE [year |-> NowLocalDate.year, month |-> NowLocalDate.month + 1]

\* C13: leap time with the day specified. The result is that day of the
\* current month at hour:minute (each 0 when unspecified) if that instant is
\* after now, otherwise the same day and time in the next month, December
\* rolling over to January of the next year.
C13_LeapDay ==
    (LeapCalled /\ sched.lt.day > 0 /\ DefaultWindow) =>
        /\ sched.out.kind = "Some"
        /\ sched.out.time.sub = 0
        /\ OutLocalDate.day = sched.lt.day
        /\ OutLocalSecs % 86400 = HourOrZero * 3600 + MinuteOrZero * 60
        /\ Lt(sched.now, sched.out.time)
        /\ \/ /\ OutLocalDate.year = NowLocalDate.year
              /\ OutLocalDate.month = NowLocalDate.month
           \/ /\ OutLocalDate.year = MonthAfterNow.year
              /\ OutLocalDate.month = MonthAfterNow.month
              /\ ~(sched.now.secs + sched.timezone * 3600 <
                     DaysFromCivil(NowLocalDate.year, NowLocalDate.month,
                                   sched.lt.day) * 86400
                       + HourOrZero * 3600 + MinuteOrZero * 60)

\* C14: leap time with only the minute specified, for every minute 0..59.
\* The result is the next occurrence of that minute of the hour: the first
\* instant strictly after now, at most an hour ahead, whose local time is
\* minute:00 past the hour (this hour, else the next hour, and 00:minute of
\* tomorrow when the hour is 23).
C14_LeapMinute ==
    (LeapCalled /\ sched.lt.day < 0 /\ sched.lt.hour < 0
       /\ sched.lt.minute \in 0..59 /\ DefaultWindow) =>
        /\ sched.out.kind = "Some"
        /\ sched.out.time.sub = 0
        /\ Lt(sched.now, sched.out.time)
        /\ sched.out.time.secs - sched.now.secs <= 3600
        /\ OutLocalSecs % 3600 = sched.lt.minute * 60

\* C15: leap-time window. In leap-time mode with a window set (start < end)
\* every instant the scheduler returns lies inside the window [start, end).
C15_LeapWindow ==
    (LeapCalled /\ WindowSet /\ sched.out.kind = "Some") =>
        /\ ~Lt(sched.out.time, sched.capture_start_time)
        /\ Lt(sched.out.time, sched.capture_end_time)

\* C16: monotonic scheduling. In every policy each instant the scheduler
\* returns is strictly later than the previous scheduled instant passed in.
C16_Monotonic ==
    (sched.called /\ sched.out.kind = "Some") =>
        Lt(sched.previous, sched.out.time)

----------------------------------------------------------------------------
(* Claims about the control loop (checked under SpecLoop).                 *)

\* the statics hold the position of the sequence as it is in s, instants in
\* whole seconds
Checkpointed(rtc, s) ==
    /\ rtc.NEXT_CAPTURE_TIME = s.next_capture_time.secs
    /\ rtc.CURRENT_TRACK_ID = s.current_track_id
    /\ rtc.DURATION_TIME = s.server_info.duration
    /\ rtc.CURRENT_RESOLUTION = s.current_resolution
    /\ rtc.LAST_CAPTURE_TIME = s.server_info.last_capture_date_time.secs
    /\ rtc.LAST_POSTED_TIME = s.server_info.last_posted_date_time.secs
    /\ rtc.IMAGE_COUNT_ID = s.capture_id

\* the wait until the next capture, as the loop computes it
ComputedWait == SleepTime(sched)

\* the loop decides how to wait: a power-down with the checkpoint written
\* when long is true, else a wait inside the process with the statics
\* untouched
SleepDecision(long) ==
    sched.pc = "sleep" =>
        IF long
        THEN /\ sched'.pc = "deep_sleep"
             /\ Checkpointed(sched'.rtc, sched)
        ELSE /\ sched'.pc = "top"
             /\ sched'.rtc = sched.rtc
             /\ ~Lt(sched'.now, sched.next_capture_time)

\* C17 as stated: whenever the computed wait exceeds 60 seconds the loop
\* stores the next-capture instant, track id, duration, resolution,
\* last-capture and last-posted timestamps and the image counter in the
\* statics before it powers down; a wait of 60 seconds or less is served
\* inside the process and writes no checkpoint.
C17_AsStated == [][SleepDecision(Lt(T(60, 0), ComputedWait))]_vars

\* C17: checkpoint before long sleep. Whenever the whole seconds of the
\* computed wait exceed 60 (the wait is 61 seconds or longer) the loop stores
\* the next-capture instant, track id, duration, resolution, last-capture and
\* last-posted timestamps and the image counter in the statics before it
\* powers down; a wait shorter than 61 seconds is served inside the process
\* and writes no checkpoint.
C17_CheckpointBeforeSleep == [][SleepDecision(as_secs(ComputedWait) > 60)]_vars

\* a power-down after a wait of 89.5 s was computed, the statics written
C17_Witness ==
    /\ sched.pc = "deep_sleep"
    /\ sched.sleep_time = T(89, 1)
    /\ Checkpointed(sched.rtc, sched)
    /\ sched.rtc.NEXT_CAPTURE_TIME > 0
    /\ sched.rtc.IMAGE_COUNT_ID = 1

\* a periodic sequence is under way: the period is set and a first capture
\* of the sequence is done
PeriodicSequence ==
    /\ sched.server_info.duration > 0
    /\ sched.capture_id > 0
    /\ sched.pc \in {"top", "capturing", "schedule", "sleep", "deep_sleep"}

\* the program has run again after a power-down of this sequence
Restarted == sched.powered /\ sched.pc # "deep_sleep"

\* the timer wake restores the instant, the track id and the image counter
\* that the statics hold; the instant comes back as what
RestoreStep(what) ==
    sched.pc = "deep_sleep" =>
        /\ sched'.pc = "top"
        /\ sched'.next_capture_time = what
        /\ sched'.current_track_id = sched.rtc.CURRENT_TRACK_ID
        /\ sched'.current_track_id = sched.current_track_id
        /\ sched'.capture_id = sched.rtc.IMAGE_COUNT_ID
        /\ sched'.capture_id = sched.capture_id
        /\ sched'.server_info.capture_started

----------------------------------------------------------------------------
(* Claims about the header fields and Append (checked under Spec).         *)

\* the bytes of the images alone
RECURSIVE PayloadBytes(_)
PayloadBytes(images) ==
    IF images = <<>> THEN 0
    ELSE Len(images[1]) + PayloadBytes(Tail(images))

\* the bytes of the image records: each payload with its record header
RecordBytes(images) == PayloadBytes(images) + Len(images) * IMAGE_HEADER_SIZE

\* C19 as stated: after finalize the size field of the header is the sum of
\* the payload lengths of the images stored (the file header and the record
\* headers not counted), and the count field is the number of image records.
C19_AsStated ==
    WriteSessionDone =>
        /\ HeaderSize(disk) = PayloadBytes(sess.written)
        /\ HeaderCount(disk) = Len(sess.written)

\* C19: after finalize the size field of the header is the sum, over the
\* image records stored, of the payload length and the 8 bytes of the record
\* header (the 16-byte file header and the end-marker are not counted), and
\* the count field is the number of image records.
C19_HeaderFields ==
    WriteSessionDone =>
        /\ HeaderSize(disk) = RecordBytes(sess.written)
        /\ HeaderCount(disk) = Len(sess.written)
        /\ Len(FILE_HEADER) + HeaderSize(disk) + IMAGE_HEADER_SIZE <= Len(disk)
        /\ FileRead(disk, Len(FILE_HEADER) + HeaderSize(disk), 4) = END_TAG

\* a finalized container of two records, 4 bytes of payload in 20 bytes of
\* records
C19_Witness ==
    /\ WriteSessionDone
    /\ result.op = "write_image_end"
    /\ sess.written = <<<<2, 1, 2>>, <<1>>>>
    /\ HeaderSize(disk) = 20
    /\ HeaderCount(disk) = 2

\* Append opens a finalized container whose images are known
AppendOpenStep ==
    /\ opens' = opens + 1
    /\ open_mode' = "Append"
    /\ result'.res = "Ok"
    /\ sess'.base # <<>>

\* the write cursor of the new handle is at header size + stored total size,
\* where the end-marker of the session before lies, and the handle counts
\* the images stored
AppendCursor ==
    /\ image_file'[1].write_pos = Len(FILE_HEADER) + HeaderSize(disk)
    /\ FileRead(disk, image_file'[1].write_pos, IMAGE_HEADER_SIZE) =
          END_TAG \o <<0, 0, 0, 0>>
    /\ image_file'[1].nimages = Len(sess'.base[1])
    /\ disk' = disk

\* an Append session on a finalized container has ended with finalize
AppendSessionDone ==
    /\ open_mode = "Append"
    /\ sess.base # <<>>
    /\ sess.finalized >= 1
    /\ ~sess.dirty

\* a reader gets the old images, then the new ones, and the count of both
AppendedReadBack ==
    /\ ReadBack(disk).res = "Ok"
    /\ ReadBack(disk).images = sess.base[1] \o sess.written
    /\ ReadBack(disk).nof = Len(sess.base[1]) + Len(sess.written)
    /\ HeaderCount(disk) = Len(sess.base[1]) + Len(sess.written)

\* C20: append across sessions. Opening a finalized container holding k
\* images in Append mode places the write cursor at header size + stored
\* total size, which is the position of the end-marker of the session before;
\* after appending m images and finalizing, Read mode yields the k old images
\* followed by the m new ones in order and the count is k + m.
C20_AppendAcrossSessions ==
    /\ [][AppendOpenStep => AppendCursor]_vars
    /\ [](AppendSessionDone => AppendedReadBack)

----------------------------------------------------------------------------
(* Claims about killed sessions, overwrite and seek (checked under Spec).  *)

\* the images the container held when the session began: none after Write
\* or a renewed header, else those stored at open
SessionBase == IF open_mode = "Write" \/ sess.renewed THEN <<>> ELSE sess.base[1]

\* a write session on a known content has written images and was killed
\* before finalize
KilledSession ==
    /\ image_file = <<>>
    /\ open_mode # "Read"
    /\ open_mode = "Write" \/ sess.renewed \/ sess.base # <<>>
    /\ sess.finalized = 0
    /\ sess.written # <<>>

\* no image of the sequence is empty
NonEmpty(images) == \A i \in 1..Len(images) : images[i] # <<>>

\* C21: if a write session is killed before finalize, the header underreports
\* the true count, but every record whose write_image completed remains
\* recoverable by a sequential scan of the records from the first record: a
\* reader that opens the container next gets them all.
C21_KilledSessionRecoverable ==
    (KilledSession /\ NonEmpty(SessionBase \o sess.written)) =>
        /\ HeaderCount(disk) < Len(SessionBase \o sess.written)
        /\ ReadBack(disk).res = "Ok"
        /\ ReadBack(disk).images = SessionBase \o sess.written

----------------------------------------------------------------------------
(* Claims about the capture session (checked under SpecCapture,            *)
(* FairSpecCapture and SpecOverlap).                                       *)

\* the session's first per-frame check read capturing_duration = 0
SingleShot == hist.checked # <<>> /\ hist.checked[1] = 0

\* the capture thread has left the frame loop of its session
LeftFrameLoop == capPc \in {"wait", "finish", "poll", "setup"}

\* C22: single-shot. A capture request served while capturing_duration = 0
\* acquires exactly one frame from the sensor, pushes it once, then stops
\* the queue and leaves the frame loop: no second frame is acquired.
C22_SingleShot ==
    /\ [](SingleShot =>
            /\ Acquired = 1
            /\ cap.loop_count = 1
            /\ hist.pushes = 1
            /\ hist.checked = <<0>>
            /\ hist.stopCalled
            /\ wiq.write_done
            /\ LeftFrameLoop)
    /\ [][(capPc = "check" /\ capPc' # "check"
             /\ info.capturing_duration = 0) =>
            /\ hist'.stopCalled
            /\ wiq'.write_done
            /\ capPc' = "wait"]_vars

\* a single-shot session in queued mode is complete: one frame pushed,
\* written and finalized, the status set
C22_Witness ==
    /\ SingleShot
    /\ Queued
    /\ info.status
    /\ capPc = "poll"
    /\ hist.accepted = <<<<2, 1>>>>
    /\ hist.handed = hist.accepted
    /\ hist.ends = 1
    /\ ReadBack(disk).images = hist.accepted

\* the session's first per-frame check read a negative capturing_duration
MovieSession == hist.checked # <<>> /\ hist.checked[1] < 0

\* the record of data lies whole at pos in the file d
WholeRecordAt(d, pos, data) ==
    FileRead(d, pos, IMAGE_HEADER_SIZE + Len(data)) =
        DATA_TAG \o LE(Len(data), 4) \o data

\* the images the container held when the session opened it
StoredBefore ==
    IF wt.open_mode = "Append" THEN ReadBack(hist.disk0).images ELSE <<>>

\* C23: cancellation of movie mode. A session running with
\* capturing_duration < 0 never ends on its own while the sensor supplies
\* frames; after the control loop changed the duration to 0 the session
\* stops at the next per-frame check, so at most one further frame is
\* acquired; and the stop never interrupts a record: in queued mode it
\* leaves the file and the writer where they are, and a record the writer
\* has begun is written whole before the writer goes on.
C23_MovieCancellation ==
    /\ [][(capPc = "check" /\ capPc' # "check"
             /\ info.capturing_duration < 0) =>
            /\ capPc' = "acquire"
            /\ ~hist'.stopCalled
            /\ ~wiq'.write_done]_vars
    /\ []((MovieSession /\ hist.stopCalled) =>
            /\ hist.checked[Len(hist.checked)] >= 0
            /\ hist.session = hist.requests =>
                  /\ hist.cancelled # <<>>
                  /\ hist.checked[Len(hist.checked)] = 0
                  /\ \A i \in 1..(Len(hist.checked) - 1) :
                        hist.checked[i] < 0)
    /\ [](hist.cancelled # <<>> => Acquired <= hist.cancelled[1] + 1)
    /\ [][(capPc = "check" /\ capPc' # "check" /\ hist.cancelled # <<>>) =>
            /\ hist'.stopCalled
            /\ capPc' = "wait"]_vars
    /\ [][(Queued /\ hist'.stopCalled /\ ~hist.stopCalled) =>
            /\ disk' = disk
            /\ wrPc' = wrPc
            /\ wdata' = wdata
            /\ wiq'.buffer = wiq.buffer]_vars
    /\ [][(wrPc = "write" /\ wrPc' # "write") =>
            /\ wrPc' = "loop"
            /\ WholeRecordAt(disk', wimg[1].write_pos, wdata[1])
            /\ wimg'[1].nimages = wimg[1].nimages + 1]_vars
    /\ []((Queued /\ wrPc \in {"publish", "exited"}) =>
            ReadBack(disk).images = StoredBefore \o hist.accepted)

\* movie mode was ended while the second frame was with the capture thread;
\* the session stopped after that frame and both frames are in the file
C23_Witness ==
    /\ MovieSession
    /\ Queued
    /\ hist.cancelled = <<2>>
    /\ hist.checked = <<-1, 0>>
    /\ Acquired = 2
    /\ info.status
    /\ Len(hist.accepted) = 2
    /\ ReadBack(disk).images = hist.accepted

\* C24: the status flag read by get_capture_status() is true only when the
\* most recently issued capture_request has been served to completion: the
\* session that set it began after that request was issued; and a request
\* issued while an earlier session is still running or flushing is not lost:
\* the capture thread is not idle with the request flag cleared before a
\* session has served it.
C24_StatusOfLatestRequest ==
    /\ info.status => hist.session = hist.requests
    /\ (capPc = "poll" /\ ~info.request) => hist.session = hist.requests

\* the request was served: status set, request cleared, the capture thread
\* idle again
Completed == info.status /\ ~info.request /\ capPc = "poll"

\* C25: every capture request with capturing_duration >= 0 eventually
\* completes (status true, request cleared, capture thread idle), as long as
\* the sensor supplies frames and the threads are scheduled fairly; a burst
\* with duration D > 0 ends at the first per-frame check at which the
\* elapsed time is >= D.
C25_RequestCompletes ==
    /\ (info.request /\ info.capturing_duration >= 0) ~>
          (Completed \/ hist.noFrame)
    /\ [][(capPc = "check" /\ capPc' # "check"
             /\ info.capturing_duration > 0) =>
            IF cap.elapsed >= info.capturing_duration
            THEN hist'.stopCalled /\ capPc' \in {"wait", "panicked"}
            ELSE ~hist'.stopCalled /\ capPc' = "acquire"]_vars

\* the writer calls write_image_end
FinalizeStep == Queued /\ hist'.ends = hist.ends + 1

\* C26: in queued mode the writer calls finalize at most once in a session
\* and exactly once when it has left its loop, and only after stop was
\* requested, the queue was seen empty and the record of every accepted
\* frame has been written; the header rewrite comes after every data record
\* of the session (nothing is written once it is done), and Stopped is set
\* only after finalize.
C26_FinalizeOnce ==
    /\ [](Queued => hist.ends <= 1)
    /\ []((Queued /\ wrPc \in {"publish", "exited"}) => hist.ends = 1)
    /\ [][FinalizeStep =>
            /\ hist.stopCalled
            /\ wiq.write_done
            /\ wiq.buffer = <<>>
            /\ wdata = <<>>
            /\ hist.handed = hist.accepted
            /\ wimg[1].nimages >= Len(hist.accepted)
            /\ HeaderCount(disk') = wimg[1].nimages
            /\ HeaderSize(disk') = wimg[1].total_size
            /\ wiq.thread_status # "Stopped"]_vars
    /\ [][(Queued /\ hist.ends >= 1 /\ capPc # "setup") =>
            /\ disk' = disk
            /\ hist'.handed = hist.handed
            /\ hist'.accepted = hist.accepted
            /\ hist'.ends = hist.ends]_vars
    /\ []((Queued /\ wiq.thread_status = "Stopped") => hist.ends = 1)

\* the writer has written two frames, finalized once and stopped
C26_Witness ==
    /\ Queued
    /\ wrPc = "exited"
    /\ wiq.thread_status = "Stopped"
    /\ hist.ends = 1
    /\ Len(hist.handed) = 2
    /\ HeaderCount(disk) = 2
    /\ FileRead(disk, Len(FILE_HEADER) + HeaderSize(disk), 4) = END_TAG

\* the capture thread gets through push_data with a buffer that does not fit
RejectedPush ==
    /\ Queued
    /\ capPc = "push"
    /\ capPc' # "push"
    /\ wiq.queue_len + Len(frame[1]) > MAX_QUEUE_SIZE

\* C27: drop-newest. A rejected push_data leaves the queue contents, their
\* order and queue_len unchanged (no queued buffer is evicted) and returns
\* without waiting for the writer, whatever the writer is doing; only the
\* drop counter and the buffer-full flag change.
C27_DropNewest ==
    /\ [][RejectedPush =>
            /\ wiq' = wiq
            /\ wt' = [wt EXCEPT !.drop_frames = @ + 1,
                                !.buffer_is_full = TRUE]
            /\ disk' = disk
            /\ <<wimg', wdata', wrPc'>> = <<wimg, wdata, wrPc>>
            /\ hist'.accepted = hist.accepted
            /\ hist'.handed = hist.handed
            /\ capPc' = "release"]_vars
    /\ []((Queued /\ capPc = "push") => ENABLED CapturePush)

\* a frame was dropped while the writer had not yet opened the container
\* and two buffers filled the queue; both are still queued
C27_Witness ==
    /\ Queued
    /\ capPc = "release"
    /\ wrPc = "open"
    /\ wt.drop_frames = 1
    /\ wt.buffer_is_full
    /\ hist.pushes = Len(hist.accepted) + 1
    /\ wiq.buffer = <<<<2, 1>>, <<1>>>>
    /\ wiq.queue_len = MAX_QUEUE_SIZE

----------------------------------------------------------------------------
(* Claims about overwrite and seek (checked under Spec).                   *)

\* Write opens a finalized container whose images are known
OverwriteOpenStep ==
    /\ opens' = opens + 1
    /\ open_mode' = "Write"
    /\ result'.res = "Ok"
    /\ sess'.base # <<>>

\* a Write session on a finalized container has ended with finalize
OverwriteSessionDone ==
    /\ open_mode = "Write"
    /\ sess.base # <<>>
    /\ sess.finalized >= 1
    /\ ~sess.dirty

\* C28: overwrite. Opening in Write mode an existing container that holds k
\* images resets count and size to 0 and puts the write cursor just past the
\* header; after writing m images and finalizing, Read mode yields exactly
\* the m new images and count m, and no record left over from the earlier,
\* longer content is returned.
C28_Overwrite ==
    /\ [][OverwriteOpenStep =>
            /\ HeaderCount(disk') = 0
            /\ HeaderSize(disk') = 0
            /\ image_file'[1] = ImageFilesOf(0, Len(FILE_HEADER), Len(FILE_HEADER), 0)]_vars
    /\ [](OverwriteSessionDone =>
            /\ ReadBack(disk).res = "Ok"
            /\ ReadBack(disk).images = sess.written
            /\ ReadBack(disk).nof = Len(sess.written)
            /\ HeaderCount(disk) = Len(sess.written))

\* seek_image is called on a handle that was opened in Read mode on a
\* finalized container and has its read cursor at the first record
SeekStep ==
    /\ result'.op = "seek_image"
    /\ sess'.ops = sess.ops + 1
    /\ open_mode = "Read"
    /\ sess.base # <<>>
    /\ image_file[1].read_pos = Len(FILE_HEADER)

\* C29: seek_image. On a finalized container of k images seek_image(n) with
\* n <= k succeeds and advances only the read cursor, past exactly n records
\* (the write cursor, the counts and the file are unchanged), and for n < k
\* the next read_image returns image number n (0-based); seek_image(n) with
\* n > k returns an error.
C29_SeekImage ==
    [][SeekStep =>
         LET n == sess'.asked[1]
             images == sess.base[1]
         IN  IF n <= Len(images)
             THEN /\ result'.res = "Ok"
                  /\ image_file'[1] =
                        [image_file[1] EXCEPT !.read_pos =
                            Len(FILE_HEADER) + RecordBytes(SubSeq(images, 1, n))]
                  /\ disk' = disk
                  /\ n < Len(images) =>
                        /\ read_image(image_file'[1], disk).res = "Ok"
                        /\ read_image(image_file'[1], disk).data = images[n + 1]
             ELSE result'.res = "Err"]_vars

----------------------------------------------------------------------------
(* Claims about resolution and quality (checked under SpecResolution).     *)

\* the capture thread is inside a session: it has seen the request and has
\* not yet published the session's status
InSession == capPc \in {"acquire", "push", "release", "check", "wait", "finish"}

\* the step in which a session gets its first frame from the sensor
FirstFrameStep ==
    /\ capPc = "acquire"
    /\ cap.loop_count = 0
    /\ capPc' = "push"

\* the sensor's frame size and JPEG quality stay as they are from the first
\* acquisition of a session to its end
SettingsFixedInSession ==
    [][InSession =>
         /\ cap'.framesize = cap.framesize
         /\ cap'.quality = cap.quality]_vars

\* C30 as the specification states it: the settings are fixed in a session,
\* and no session gets its first frame while a resolution change, requested
\* at whatever time before, is still waiting to be applied.
C30_AsStated ==
    /\ SettingsFixedInSession
    /\ [][FirstFrameStep => ~info.change_resolution]_vars

\* C30: the sensor's frame size and JPEG quality are never changed between
\* the first and the last frame of a session; the turn of the thread's loop
\* that finds a resolution change applies the last requested frame size and
\* runs an autofocus pass for it; and every frame of a session is taken at
\* the frame size last requested before the capture thread saw the session's
\* request: a change requested after that waits for the end of the session.
C30_SessionBoundaries ==
    /\ SettingsFixedInSession
    /\ [][(capPc = "poll" /\ info.change_resolution /\ cap' # cap) =>
             /\ cap'.framesize = info.resolution
             /\ cap'.passes # <<>>
             /\ cap'.passes[1] = "resolution"
             /\ ~info'.change_resolution]_vars
    /\ []((InSession /\ hist.atPoll # <<>>) =>
             cap.framesize = hist.atPoll[1])

\* a session that follows another one has its first frame, at the frame
\* size that was requested before it and with the configured quality
C30_Witness ==
    /\ hist.session = 2
    /\ hist.disk0 # <<>>
    /\ capPc = "push"
    /\ cap.loop_count = 0
    /\ hist.atPoll = <<"VGA">>
    /\ cap.framesize = "VGA"
    /\ cap.passes = <<"resolution", "request">>
    /\ cap.quality = info.jpeg_quality
    /\ ~info.change_resolution

----------------------------------------------------------------------------
(* Claims about frame ownership and the queue mutex (SpecCapture).         *)

\* the capture thread takes a frame from the sensor
AcquireStep == frame = <<>> /\ capPc = "acquire" /\ capPc' = "push"

\* the capture thread gives the frame back, after push_data has returned
ReleaseStep ==
    /\ frame # <<>>
    /\ capPc = "release"
    /\ frame' = <<>>
    /\ hist.pushes = cap.loop_count + 1

\* C31: frame ownership. The frame changes hands only when the capture loop
\* acquires it or releases it; it is released after it was handed to
\* push_data, whether push_data queued it or dropped it, and before the next
\* frame is acquired; so a frame is outstanding only between its acquisition
\* and its release, and every acquired frame is released.
C31_FrameOwnership ==
    /\ [][frame' # frame => (AcquireStep \/ ReleaseStep)]_vars
    /\ [](frame # <<>> => capPc \in {"push", "release"})
    /\ [](capPc = "push" => hist.pushes = cap.loop_count)
    /\ [](capPc = "release" => hist.pushes = cap.loop_count + 1)

\* C32: in queued mode the writer does not hold the queue mutex while it
\* executes write_image or write_image_end: the turn of the loop that pops a
\* buffer takes exactly one and drops the guard, the file changes only while
\* the writer has no guard, and a push_data that waits for the writer waits
\* for a turn of the loop or for the publication of the count, which the
\* writer can always complete.
C32_WriterUnlocked ==
    /\ [](wrPc \in {"write", "end"} => wiq.guard # <<"writer">>)
    /\ [][(Queued /\ disk' # disk) =>
             wiq.guard # <<"writer">> /\ wiq'.guard # <<"writer">>]_vars
    /\ [][(wrPc = "loop" /\ wrPc' = "write") =>
             /\ wiq'.guard = <<>>
             /\ wdata' = <<wiq.buffer[1]>>
             /\ wiq'.buffer = Tail(wiq.buffer)]_vars
    /\ []((capPc = "push" /\ wiq.guard = <<"writer">>) =>
             /\ wrPc \in {"loop", "publish"}
             /\ ENABLED (WriterLoopLocked \/ WriterPublishLocked))

\* push_data holds the queue mutex while the writer is writing a buffer
C32_Witness ==
    /\ Queued
    /\ wrPc = "write"
    /\ capPc = "push"
    /\ wiq.guard = <<"capture">>
    /\ wdata # <<>>

----------------------------------------------------------------------------
(* Claims about the end of a capture sequence (SpecLoop).                  *)

\* get_next_wake_time returns None to the control loop
ExhaustedStep ==
    /\ sched.pc = "schedule"
    /\ get_next_wake_time(sched.server_info.leap_time,
                          sched.server_info.timezone,
                          sched.next_capture_time,
                          sched.server_info.duration,
                          sched.server_info.capture_start_time,
                          sched.server_info.capture_end_time,
                          sched.now).kind = "None"
    /\ sched' # sched

\* C33: schedule exhaustion is terminal. When get_next_wake_time returns
\* None the control loop clears capture_started, writes auto-capture = false
\* (and image count 0) to the persistent region and powers down with no timer
\* wake armed; from then on nothing runs: no wake, no capture request.
C33_ExhaustionTerminal ==
    /\ [][ExhaustedStep =>
             /\ sched'.pc = "ended"
             /\ ~sched'.server_info.capture_started
             /\ ~sched'.rtc.DEEP_SLEEP_AUTO_CAPTURE
             /\ sched'.rtc.IMAGE_COUNT_ID = 0
             /\ sched'.timer = <<>>]_vars
    /\ [][sched.pc = "ended" => sched' = sched]_vars
    /\ [](sched.pc = "ended" => ~ENABLED NextLoop)

\* a sequence of three captures has ended: the third one was the last inside
\* the capture window
C33_Witness ==
    /\ sched.pc = "ended"
    /\ sched.cycles = 3
    /\ sched.images = 3
    /\ ~sched.rtc.DEEP_SLEEP_AUTO_CAPTURE
    /\ sched.timer = <<>>

----------------------------------------------------------------------------
(* Claims about the scheduler's failures (SpecSched).                      *)

\* C34: the scheduler does not panic on any configurable leap time: for
\* every leap day, hour and minute and every current date
\* get_next_wake_time returns an instant or the terminal result, also when
\* the configured day does not exist in the current month or in the next.
C34_NoPanic ==
    sched.called => sched.out.kind \in {"Some", "None"}

----------------------------------------------------------------------------
(* Claims about the two write modes side by side (SpecTwin).               *)

\* C35: direct and queued mode give the same result when nothing is
\* dropped. After the same pushes, stop and wait, with no push rejected by
\* the queue, the file of the queued WriteThread is byte for byte the file
\* of the direct one and get_nof_images() returns the same count; the direct
\* WriteThread never queues a buffer and never counts a drop.
C35_ModesEquivalent ==
    /\ twin[1].wiq.buffer = <<>>
    /\ twin[1].wiq.queue_len = 0
    /\ twin[1].wt.drop_frames = 0
    /\ (capPc = "finish" /\ wt.drop_frames = 0) =>
           /\ disk = twin[1].disk
           /\ WriteThread_get_nof_images(wiq)
                  = WriteThread_get_nof_images(twin[1].wiq)

\* both have finished after two different frames went through the queue
\* onto a container that held an image already
C35_Witness ==
    /\ capPc = "finish"
    /\ wt.drop_frames = 0
    /\ hist.accepted = <<<<2, 1>>, <<1>>>>
    /\ hist.disk0 # <<>>
    /\ wt.open_mode = "Append"
    /\ WriteThread_get_nof_images(wiq) = 3
    /\ disk = twin[1].disk

----------------------------------------------------------------------------
(* Claims about the byte count of the queue (SpecMutex).                   *)

RECURSIVE QueuedBytes(_)
\* the sum of the lengths of the buffers of a sequence
QueuedBytes(buffer) ==
    IF buffer = <<>> THEN 0
    ELSE Len(Head(buffer)) + QueuedBytes(Tail(buffer))

\* C36: queue_len is the number of bytes in the queue. Whenever the queue
\* mutex is free, queue_len equals the sum of the lengths of the queued
\* buffers, which is the bytes accepted in the session less the bytes popped;
\* an accepted push adds the length of its buffer, a rejected one adds
\* nothing, a pop subtracts the length of the buffer it takes, and nothing
\* else changes queue_len inside a session; so it is never negative and it is
\* 0 exactly when no queued byte is left.
C36_QueueLenExact ==
    /\ [](wiq.guard = <<>> =>
             /\ wiq.queue_len = QueuedBytes(wiq.buffer)
             /\ wiq.queue_len = QueuedBytes(hist.accepted) - wiq.data_size
             /\ (wiq.queue_len = 0 <=> wiq.buffer = <<>>))
    /\ [](wiq.queue_len >= 0)
    /\ [][(capPc = "push" /\ capPc' = "release" /\ Queued) =>
             IF wiq'.buffer # wiq.buffer
             THEN /\ wiq'.buffer = Append(wiq.buffer, frame[1])
                  /\ wiq'.queue_len = wiq.queue_len + Len(frame[1])
             ELSE wiq'.queue_len = wiq.queue_len]_vars
    /\ [][(wrPc = "loop" /\ wrPc' = "write") =>
             wiq'.queue_len = wiq.queue_len - Len(wiq.buffer[1])]_vars
    /\ [][wiq'.queue_len # wiq.queue_len =>
             \/ capPc = "push" /\ capPc' = "release"
             \/ wrPc = "loop" /\ wrPc' = "write"
             \/ capPc = "setup" /\ wiq' = NewQueue]_vars

\* one byte popped, three bytes in two buffers waiting, the mutex free
C36_Witness ==
    /\ wiq.guard = <<>>
    /\ Len(wiq.buffer) = 2
    /\ wiq.queue_len = 3
    /\ wiq.data_size = 1

----------------------------------------------------------------------------
(* Claims about the two mutexes together (SpecMutex).                      *)

\* the control thread is in info.lock() and the capture thread has the guard
ControlWaits ==
    /\ \/ ctlPc = "idle" /\ hist.requests < MaxRequests
       \/ ctlPc \in {"waiting", "movie"}
    /\ info.guard = <<"capture">>

\* the capture thread is in info.lock() and the control thread has the guard
CaptureWaitsInfo ==
    /\ capPc \in {"poll", "setup", "check", "status"}
    /\ info.guard = <<"control">>

\* the capture thread is in write_image_queue.lock() and the writer has the
\* guard
CaptureWaitsQueue ==
    /\ \/ capPc \in {"push", "wait", "finish"}
       \/ /\ capPc = "check"
          /\ info.guard = <<"capture">>
          /\ SessionOver(info.capturing_duration, cap.elapsed)
    /\ wiq.guard = <<"writer">>

\* the writer is in write_image_queue.lock() and the capture thread has the
\* guard
WriterWaits ==
    /\ wrPc \in {"loop", "publish"}
    /\ wiq.guard = <<"capture">>

\* C37: no deadlock among the control thread, the capture thread and the
\* writer thread. The three are never all waiting for a mutex; the only
\* nested acquisition is the capture thread taking the queue mutex with the
\* info guard in hand, the writer never holds a guard while it asks for one
\* and never asks for the info mutex; and whenever a thread waits for a mutex
\* the thread at the end of the chain of holders has a step it can take.
C37_NoDeadlock ==
    /\ ~(ControlWaits /\ (CaptureWaitsInfo \/ CaptureWaitsQueue)
                      /\ WriterWaits)
    /\ info.guard \in {<<>>, <<"control">>, <<"capture">>, <<"poisoned">>}
    /\ wiq.guard \in {<<>>, <<"capture">>, <<"writer">>, <<"poisoned">>}
    /\ (info.guard = <<"capture">> /\ wiq.guard = <<"capture">>) =>
           capPc = "check"
    /\ WriterWaits =>
           ENABLED (CapturePushLocked \/ CaptureCheckLocked
                       \/ CaptureWaitLocked \/ CaptureCountLocked)
    /\ CaptureWaitsQueue => ENABLED WriterThreadMutex
    /\ CaptureWaitsInfo => ENABLED ControlLoopMutex
    /\ ControlWaits =>
           \/ ENABLED CaptureThreadMutex
           \/ CaptureWaitsQueue /\ ENABLED WriterThreadMutex

\* the longest chain: the control thread waits for the info mutex, which the
\* capture thread holds while it waits in stop() for the queue mutex, which
\* the writer holds
C37_Witness ==
    /\ ControlWaits
    /\ capPc = "check"
    /\ CaptureWaitsQueue
    /\ wrPc = "loop"

----------------------------------------------------------------------------
(* Claims about file operations that fail (SpecFail).                      *)

\* a write_image of the session returns Err
FailedWriteStep == Len(sess'.failedAt) = Len(sess.failedAt) + 1

\* a write_image of the session returns Ok
WriteOkStep == Len(sess'.written) = Len(sess.written) + 1

\* the session writes on a content the model knows
KnownBase == open_mode = "Write" \/ sess.renewed \/ sess.base # <<>>

\* C38: a write_image that fails leaves the write cursor, the cumulative
\* size and the image count of the handle as they were. So before finalize
\* the three always describe the records whose write_image returned Ok, the
\* next write_image that succeeds puts its record at the offset of the
\* incomplete one, and the count and size finalize writes to the header
\* cover the successful records only: a reader gets exactly those.
C38_FailedWriteNotCounted ==
    /\ [][FailedWriteStep =>
             /\ result'.res = "Err"
             /\ image_file' = image_file]_vars
    /\ []((image_file # <<>> /\ open_mode # "Read" /\ KnownBase
                /\ sess.finalized = 0) =>
             LET images == SessionBase \o sess.written
             IN  /\ image_file[1].nimages = Len(images)
                 /\ image_file[1].total_size = RecordBytes(images)
                 /\ image_file[1].write_pos
                       = Len(FILE_HEADER) + RecordBytes(images))
    /\ [][WriteOkStep =>
             LET buffer == sess'.written[Len(sess'.written)]
             IN  FileRead(disk', image_file[1].write_pos,
                          IMAGE_HEADER_SIZE + Len(buffer))
                    = DATA_TAG \o LE(Len(buffer), 4) \o buffer]_vars
    /\ []((KnownBase /\ open_mode # "Read" /\ sess.finalized >= 1
                /\ ~sess.dirty) =>
             LET images == SessionBase \o sess.written
             IN  /\ HeaderCount(disk) = Len(images)
                 /\ HeaderSize(disk) = RecordBytes(images)
                 /\ NonEmpty(images) =>
                        /\ ReadBack(disk).res = "Ok"
                        /\ ReadBack(disk).images = images)

\* the first write_image of a session failed, the next one stored a one-byte
\* image, and finalize counted that one alone
C38_Witness ==
    /\ open_mode = "Write"
    /\ sess.failedAt = <<0>>
    /\ sess.written = <<<<1>>>>
    /\ sess.finalized = 1
    /\ ~sess.dirty
    /\ HeaderCount(disk) = 1
    /\ HeaderSize(disk) = IMAGE_HEADER_SIZE + 1
    /\ ReadBack(disk).images = <<<<1>>>>

----------------------------------------------------------------------------
(* Claims about capture cycles (SpecCycles).                               *)

\* "Capture Start...": a session begins
SessionStartStep == capPc = "setup" /\ capPc' = "acquire"

\* the sequence began on an absent container or overwrites the stored one
FreshOrOverwritten == sched.fresh \/ sched.overwrite_saved

\* C39: images accumulate across capture cycles. Only the session of the
\* first cycle of a sequence can open the container in Write mode, and it
\* does so when overwriting is configured; every later session opens it in
\* Append mode; the sequence counter is 0 before the first cycle only. In
\* single-shot mode, with no frame dropped, after k completed cycles on a
\* fresh or overwritten container the container holds exactly k images, the
\* reported capture id is k - 1 (0 before any cycle) and the counter is k.
C39_ImagesAccumulate ==
    /\ [][SessionStartStep =>
             wt'.open_mode = IF sched.cycles = 0 /\ sched.overwrite_saved
                             THEN "Write" ELSE "Append"]_vars
    /\ [](sched.capture_id = 0 <=> sched.cycles = 0)
    /\ [](sched.cycles = 0 => sched.current_capture_id = 0)
    /\ []((ctlPc = "idle" /\ sched.cycles >= 1 /\ FreshOrOverwritten
                /\ wt.drop_frames = 0) =>
             /\ HeaderCount(disk) = sched.cycles
             /\ ReadBack(disk).res = "Ok"
             /\ ReadBack(disk).nof = sched.cycles
             /\ Len(ReadBack(disk).images) = sched.cycles
             /\ sched.current_capture_id = sched.cycles - 1
             /\ sched.capture_id = sched.cycles)

\* three cycles with overwriting configured on a container that held an
\* image: three images, the last reported id is 2
C39_Witness ==
    /\ ctlPc = "idle"
    /\ sched.cycles = 3
    /\ sched.overwrite_saved
    /\ ~sched.fresh
    /\ wt.drop_frames = 0
    /\ wt.open_mode = "Append"
    /\ HeaderCount(disk) = 3
    /\ sched.current_capture_id = 2

====
